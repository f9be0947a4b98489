------------------------------- MODULE Briefing ------------------------------
(***************************************************************************)
(* The briefing page: the AI writes a text, the server reads levels of the *)
(* covered assets out of it, and where it finds none the page reads again  *)
(* and at last puts something around the quotes it has.                    *)
(*                                                                         *)
(* A text is a sequence of paragraphs.  Of a paragraph it matters which    *)
(* assets its first line names, whether the next heading comes soon enough *)
(* for the server's pattern (reach), whether a name is at the start of the *)
(* line, as the page's pattern wants it (headed), whether the levels are   *)
(* on that line (inline), and how each is written.                         *)
(***************************************************************************)
EXTENDS MarketDesk, AnalysisParser

CONSTANTS
  Texts,        \* what the AI may write
  Covered       \* the assets the page asks for

BRIEFING == "briefing"

Kinds == {"support", "resistance"}

ASSUME BriefingAssumption ==
  /\ NONE # BRIEFING /\ BRIEFING \notin Symbols
  /\ Texts \subseteq Seq([assets : SUBSET Symbols, reach : BOOLEAN, headed : BOOLEAN,
                          inline : BOOLEAN, support : STRING, resistance : STRING])

VARIABLES report    \* text and levels on each screen

briefingVars == <<report>>

NoLevel == [of |-> {}, as |-> "none"]

NoReport == [text |-> <<>>, levels |-> [sym \in Covered |-> [k \in Kinds |-> NoLevel]]]

-----------------------------------------------------------------------------
(* The first of the paragraphs that qualify, or the whole text.            *)
FirstOf(text, own) == IF own = {} THEN text ELSE <<text[Min(own)]>>

(* Defect: the section is not looked for.                                  *)
WholeText(text, sym) == text

(* _extract_key_levels                                                     *)
OwnSection(text, sym) ==
  FirstOf(text, {i \in 1 .. Len(text) : sym \in text[i].assets /\ text[i].reach})

(* _parseLevelsFromBriefing: the section ends with the line of the name.   *)
PageSection(text, sym) ==
  LET Named(p) == sym \in p.assets /\ p.headed
      section == FirstOf(text, {i \in 1 .. Len(text) : Named(text[i])})
  IN  [i \in 1 .. Len(section) |->
         IF Named(section[i]) /\ ~section[i].inline
         THEN [section[i] EXCEPT !.support = "none", !.resistance = "none"] ELSE section[i]]

(* A decimal separator is required and every separator is taken for one.   *)
ParseLevel(written) ==
  CASE written = "decimal"   -> "its value"
    [] written = "thousands" -> "a thousandth"
    [] OTHER                 -> "none"

(* The first number after the word.                                        *)
LevelIn(section, k) ==
  LET found == {i \in 1 .. Len(section) : ParseLevel(section[i][k]) # "none"}
      first == section[Min(found)]
  IN  IF found = {} THEN NoLevel ELSE [of |-> first.assets, as |-> ParseLevel(first[k])]

KeyLevels(text, sym) == [k \in Kinds |-> LevelIn(OwnSection(text, sym), k)]

(* renderBriefing: one and a half per cent off the quote, if there is one. *)
ShownLevels(text, sym, quoted) ==
  LET server == KeyLevels(text, sym)
      onPage == [k \in Kinds |-> LevelIn(PageSection(text, sym), k)]
      spare == IF quoted THEN [of |-> {sym}, as |-> "near its quote"] ELSE NoLevel
  IN  IF \E k \in Kinds : server[k] # NoLevel THEN server
      ELSE [k \in Kinds |-> IF onPage[k] # NoLevel THEN onPage[k] ELSE spare]

-----------------------------------------------------------------------------
BriefingInit == report = [b \in Browsers |-> NoReport]

(* loadBriefing, each time the page is opened or the button is pressed.    *)
AskBriefing(b) ==
  /\ page = "briefing" /\ b \in Audience[page]
  /\ Request(b, BRIEFING)
  /\ report' = [report EXCEPT ![b].text = <<>>]
  /\ UNCHANGED <<yahoo, moves, quotes, selected, grid, silences, feedVars, socketVars>>

(* GenerateBriefingUseCase, the AI's call.                                 *)
Generate(b, r) ==
  /\ line[b][r].want = BRIEFING /\ line[b][r].got = <<>>
  /\ \E text \in Texts : line' = [line EXCEPT ![b][r].got = <<text>>]
  /\ UNCHANGED <<yahoo, moves, quotes, selected, grid, silences, report, feedVars, socketVars>>

ShowBriefing(b, r) ==
  /\ line[b][r].want = BRIEFING /\ line[b][r].got # <<>>
  /\ line' = [line EXCEPT ![b][r] = Idle]
  /\ LET text == line[b][r].got[1] IN
       report' = [report EXCEPT ![b] =
         [text |-> text,
          levels |-> [sym \in Covered |-> ShownLevels(text, sym, quotes[b] # <<>>)]]]
  /\ UNCHANGED <<yahoo, moves, quotes, selected, grid, silences, feedVars, socketVars>>

(* The error takes the place of the text; the levels stay.                 *)
RefuseBriefing(b, r) ==
  /\ line[b][r].want = BRIEFING /\ silences < MaxSilences
  /\ silences' = silences + 1
  /\ line' = [line EXCEPT ![b][r] = Idle]
  /\ report' = [report EXCEPT ![b].text = <<>>]
  /\ UNCHANGED <<yahoo, moves, quotes, selected, grid, feedVars, socketVars>>

BriefingNext ==
  \E b \in Browsers :
    \/ AskBriefing(b)
    \/ \E r \in Lines : Generate(b, r) \/ ShowBriefing(b, r) \/ RefuseBriefing(b, r)
=============================================================================
