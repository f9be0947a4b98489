------------------------------ MODULE LivePages ------------------------------
(***************************************************************************)
(* The trades page and the analysis page: an event of the socket or a      *)
(* timer makes the browser ask the API again, and whatever answer comes    *)
(* in, however late, is what the page shows.  The server announces a       *)
(* change before it commits it (get_db).                                   *)
(***************************************************************************)
EXTENDS LiveSocket, AnalysisParser

CONSTANTS
  Analyses,     \* requests of POST /analyses
  Runner,       \* the browser that sends each
  Answers,      \* what the AI may answer to each of them
  Changes,      \* requests that record or close a trade
  MaxFailures,  \* failed requests (bound)
  Requests      \* requests a browser has open at a time (bound)

ASSUME PagesAssumption ==
  /\ Runner \in [Analyses -> Browsers]
  /\ NONE \notin Analyses \cup {"trades"} \cup Parsed /\ "trades" \notin Analyses
  /\ Answers # {}
  /\ \A f \in Answers, a \in Analyses : f[a].score \in Nat /\ f[a].justified \in BOOLEAN
  /\ MaxFailures \in Nat

VARIABLES
  answer,       \* what the AI answers to each
  change,       \* how far each change to the trades is
  analysis,     \* how far each analysis is
  parsed,       \* what has been made of the AI's answer to each
  running,      \* analyses whose browser waits for them
  fetch,        \* open requests of each browser
  failures,
  list,         \* the changes each screen shows, or ERROR
  screen        \* what the analysis page shows (lastAnalysisId is its id)

pageVars == <<answer, change, analysis, parsed, running, fetch, failures, list, screen>>

ERROR == {NONE}

Committed == {c \in Changes : change[c] = "committed"}

Free == [step |-> "free", want |-> NONE, got |-> {}]

(* Nothing but the page's own text.                                        *)
Blank ==
  [id |-> NONE, trend |-> "", suggestion |-> "", score |-> 0,
   reasoning |-> NONE, risks |-> NONE]

PagesInit ==
  /\ answer \in Answers
  /\ change = [c \in Changes |-> "none"]
  /\ analysis = [a \in Analyses |-> "none"]
  /\ parsed = [a \in Analyses |-> NONE]
  /\ running = {}
  /\ fetch = [b \in Browsers |-> [r \in Requests |-> Free]]
  /\ failures = 0
  /\ list = [b \in Browsers |-> {}]
  /\ screen = [b \in Browsers |-> Blank]

-----------------------------------------------------------------------------
(* The server.                                                             *)

(* A trade is recorded or closed: publish, then commit or roll back.       *)
AnnounceChange(c) ==
  /\ page = "trades"
  /\ change[c] = "none"
  /\ change' = [change EXCEPT ![c] = "announced"]
  /\ Announce(Event("trade.closed", NONE, 0))
  /\ UNCHANGED <<answer, parsed, running, analysis, fetch, failures, list, screen>>

EndChange(c) ==
  /\ change[c] = "announced"
  /\ \E outcome \in {"committed", "failed"} : change' = [change EXCEPT ![c] = outcome]
  /\ UNCHANGED <<answer, parsed, running, analysis, fetch, failures, list, screen, socketVars>>

(* RunAnalysisUseCase, from the AI's answer on: parse, flush, publish,     *)
(* then commit.                                                            *)
AnnounceAnalysis(a) ==
  /\ analysis[a] = "asked"
  /\ analysis' = [analysis EXCEPT ![a] = "announced"]
  /\ parsed' = [parsed EXCEPT ![a] = Parse(answer[a])]
  /\ Announce(Event("analysis.completed", a, 0))
  /\ UNCHANGED <<answer, running, change, fetch, failures, list, screen>>

EndAnalysis(a) ==
  /\ \/ /\ analysis[a] = "announced"
        /\ analysis' = [analysis EXCEPT ![a] = "committed"]
     \/ /\ analysis[a] \in {"asked", "announced"}
        /\ analysis' = [analysis EXCEPT ![a] = "failed"]
  /\ UNCHANGED <<answer, parsed, running, change, fetch, failures, list, screen, socketVars>>

(* A GET reads what is committed.                                          *)
Answered(f) ==
  IF f.want = "trades" THEN [f EXCEPT !.step = "answered", !.got = Committed]
  ELSE IF analysis[f.want] = "committed" THEN [f EXCEPT !.step = "answered"]
  ELSE [f EXCEPT !.step = "failed"]

Serve(b, r) ==
  /\ fetch[b][r].step = "asked"
  /\ \/ /\ fetch' = [fetch EXCEPT ![b][r] = Answered(@)]
        /\ UNCHANGED failures
     \/ /\ failures < MaxFailures
        /\ failures' = failures + 1
        /\ fetch' = [fetch EXCEPT ![b][r].step = "failed"]
  /\ UNCHANGED <<answer, parsed, running, change, analysis, list, screen, socketVars>>

-----------------------------------------------------------------------------
(* The browser.                                                            *)

Get(b, want) ==
  \E r \in Requests :
    /\ fetch[b][r] = Free
    /\ fetch' = [fetch EXCEPT ![b][r] = [Free EXCEPT !.step = "asked", !.want = want]]

(* runAnalysis sends the request and waits for it.                         *)
RunAnalysis(a) ==
  /\ page = "analysis"
  /\ analysis[a] = "none"
  /\ \A other \in running : Runner[other] # Runner[a]
  /\ analysis' = [analysis EXCEPT ![a] = "asked"]
  /\ running' = running \cup {a}
  /\ UNCHANGED <<answer, parsed, change, fetch, failures, list, screen, socketVars>>

(* Its answer comes and is rendered, or it is an error.                    *)
Rendered(a) ==
  /\ a \in running
  /\ running' = running \ {a}
  /\ \/ /\ analysis[a] \in {"announced", "committed"}
        /\ screen' = [screen EXCEPT ![Runner[a]] = Render(@, a, ToOutput(parsed[a]))]
     \/ UNCHANGED screen
  /\ UNCHANGED <<answer, parsed, change, analysis, fetch, failures, list, socketVars>>

(* onWsEvent: trade.opened, trade.closed and analysis.completed.           *)
Notice(b) ==
  /\ page \in {"trades", "analysis"} /\ Take(b)
  /\ LET e == Head(inbox[b]) IN
       Get(b, IF e.event = "analysis.completed" THEN e.of ELSE "trades")
  /\ UNCHANGED <<answer, parsed, running, change, analysis, failures, list, screen>>

(* Defect: the list is loaded again by events only.                        *)
PollAnalysisOnly(b) ==
  /\ b \in Audience[page]
  /\ page = "analysis" /\ screen[b].id # NONE /\ Get(b, screen[b].id)
  /\ UNCHANGED <<answer, parsed, running, change, analysis, failures, list, screen, socketVars>>

(* The page's timer: loadTrades, or pollLatestAnalysis once an analysis is *)
(* shown.                                                                  *)
Poll(b) ==
  /\ b \in Audience[page]
  /\ \/ page = "trades" /\ Get(b, "trades")
     \/ page = "analysis" /\ screen[b].id # NONE /\ Get(b, screen[b].id)
  /\ UNCHANGED <<answer, parsed, running, change, analysis, failures, list, screen, socketVars>>

(* An answer arrives and is shown; without one the list shows an error and *)
(* the analysis stays.                                                     *)
Show(b, r) ==
  LET f == fetch[b][r] IN
    /\ f.step \in {"answered", "failed"}
    /\ fetch' = [fetch EXCEPT ![b][r] = Free]
    /\ list' = IF f.want # "trades" THEN list
               ELSE [list EXCEPT ![b] = IF f.step = "answered" THEN f.got ELSE ERROR]
    /\ screen' = IF f.want # "trades" /\ f.step = "answered"
                 THEN [screen EXCEPT ![b] =
                         Render(@, f.want, ToOutput(ToDomain(ToRow(parsed[f.want]))))]
                 ELSE screen
    /\ UNCHANGED <<answer, parsed, running, change, analysis, failures, socketVars>>

PagesNext ==
  \/ \E c \in Changes : AnnounceChange(c) \/ EndChange(c)
  \/ \E a \in Analyses :
       RunAnalysis(a) \/ AnnounceAnalysis(a) \/ EndAnalysis(a) \/ Rendered(a)
  \/ \E b \in Browsers :
       Notice(b) \/ Poll(b) \/ \E r \in Requests : Serve(b, r) \/ Show(b, r)
=============================================================================
