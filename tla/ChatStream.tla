------------------------------ MODULE ChatStream -----------------------------
(***************************************************************************)
(* The chat page: a question is posted, the answer is streamed token by    *)
(* token on one channel to everybody, and each browser appends the tokens  *)
(* to its one open bubble.  When the post fails the browser falls back to  *)
(* POST /analyses.                                                         *)
(***************************************************************************)
EXTENDS LiveSocket

CONSTANTS
  Questions,
  Asker,        \* the browser that asks each question
  Patient,      \* whether one question is asked at a time
  MaxTokens     \* length of an answer (bound)

ASSUME ChatAssumption ==
  /\ Asker \in [Questions -> Browsers]
  /\ NONE \notin Questions
  /\ Patient \in BOOLEAN
  /\ MaxTokens \in Nat

VARIABLES
  task,         \* the server's part of each question
  sent,         \* tokens published
  waiting,      \* the browser's request for each question
  bubble,       \* _chatStreamBubble of each browser
  view,         \* what stands below each question
  text          \* the tokens in each question's bubble

chatVars == <<task, sent, waiting, bubble, view, text>>

ChatInit ==
  /\ task = [q \in Questions |-> "none"]
  /\ sent = [q \in Questions |-> 0]
  /\ waiting = [q \in Questions |-> "nothing"]
  /\ bubble = [b \in Browsers |-> NONE]
  /\ view = [q \in Questions |-> "none"]
  /\ text = [q \in Questions |-> <<>>]

(* Nothing is going on: the moment at which a patient user asks, unless    *)
(* the page has just been opened.                                          *)
Quiet ==
  /\ \A q \in Questions : task[q] \in {"none", "over"} /\ waiting[q] = "nothing"
  /\ \A b \in Browsers : inbox[b] = <<>>

(* sendChatMsg up to its first await: over the socket if that is open and  *)
(* no image is attached.                                                   *)
Ask(q) ==
  /\ page = "chat"
  /\ view[q] = "none"
  /\ Patient => Quiet /\ link[Asker[q]] # "open"
  /\ \/ /\ link[Asker[q]] # "closed"
        /\ bubble' = [bubble EXCEPT ![Asker[q]] = q]
        /\ view' = [view EXCEPT ![q] = "stream"]
        /\ waiting' = [waiting EXCEPT ![q] = "chat"]
        /\ task' = [task EXCEPT ![q] = "posted"]
     \/ /\ view' = [view EXCEPT ![q] = "typing"]
        /\ waiting' = [waiting EXCEPT ![q] = "analysis"]
        /\ UNCHANGED <<bubble, task>>
  /\ UNCHANGED <<sent, text, socketVars>>

(* chat_stream: the background task starts once the answer 202 is out.     *)
Accept(q) ==
  /\ task[q] = "posted"
  /\ task' = [task EXCEPT ![q] = "streaming"]
  /\ UNCHANGED <<sent, waiting, bubble, view, text, socketVars>>

Accepted(q) ==
  /\ waiting[q] = "chat" /\ task[q] # "posted"
  /\ waiting' = [waiting EXCEPT ![q] = "nothing"]
  /\ UNCHANGED <<task, sent, bubble, view, text, socketVars>>

(* Defect: the bubble is removed and stays the open one.                   *)
FallBackHalf(q) ==
  /\ waiting[q] = "chat"
  /\ waiting' = [waiting EXCEPT ![q] = "analysis"]
  /\ view' = [view EXCEPT ![q] = "typing"]
  /\ text' = [text EXCEPT ![q] = <<>>]
  /\ UNCHANGED <<task, sent, bubble, socketVars>>

(* The post or its answer is lost: whatever bubble is open is forgotten,   *)
(* this one is removed, and the question goes to the analyses.  A server   *)
(* that has the question streams on.                                       *)
FallBack(q) ==
  /\ waiting[q] = "chat"
  /\ waiting' = [waiting EXCEPT ![q] = "analysis"]
  /\ bubble' = [bubble EXCEPT ![Asker[q]] = NONE]
  /\ view' = [view EXCEPT ![q] = "typing"]
  /\ text' = [text EXCEPT ![q] = <<>>]
  /\ UNCHANGED <<task, sent, socketVars>>

FallbackEnds(q) ==
  /\ waiting[q] = "analysis"
  /\ waiting' = [waiting EXCEPT ![q] = "nothing"]
  /\ \E v \in {"answered", "error"} : view' = [view EXCEPT ![q] = v]
  /\ UNCHANGED <<task, sent, bubble, text, socketVars>>

(* Defect: the publish of a token may fail and the stream goes on.         *)
EmitLossy(q) ==
  /\ task[q] = "streaming" /\ sent[q] < MaxTokens
  /\ sent' = [sent EXCEPT ![q] = @ + 1]
  /\ Deliver(Event("ai.token", q, sent'[q])) \/ UNCHANGED socketVars
  /\ UNCHANGED <<task, waiting, bubble, view, text>>

Emit(q) ==
  /\ task[q] = "streaming" /\ sent[q] < MaxTokens
  /\ sent' = [sent EXCEPT ![q] = @ + 1]
  /\ Announce(Event("ai.token", q, sent'[q]))
  /\ UNCHANGED <<task, waiting, bubble, view, text>>

(* The answer is complete, or the AI or a publish failed: finally.         *)
Stop(q) ==
  /\ task[q] = "streaming"
  /\ task' = [task EXCEPT ![q] = "ending"]
  /\ UNCHANGED <<sent, waiting, bubble, view, text, socketVars>>

End(q) ==
  /\ task[q] = "ending"
  /\ task' = [task EXCEPT ![q] = "over"]
  /\ Announce(Event("ai.stream_end", q, 0))
  /\ UNCHANGED <<sent, waiting, bubble, view, text>>

(* onWsEvent: ai.token and ai.stream_end.                                  *)
Hear(b) ==
  /\ page = "chat" /\ Take(b)
  /\ LET e == Head(inbox[b])
         q == bubble[b]
     IN  IF e.event = "ai.token"
         THEN /\ text' = IF q = NONE THEN text ELSE [text EXCEPT ![q] = Append(@, e)]
              /\ UNCHANGED bubble
         ELSE /\ bubble' = [bubble EXCEPT ![b] = NONE]
              /\ UNCHANGED text
  /\ UNCHANGED <<task, sent, waiting, view>>

ChatNext ==
  \/ \E q \in Questions :
       Ask(q) \/ Accept(q) \/ Accepted(q) \/ FallBack(q) \/ FallbackEnds(q)
         \/ Emit(q) \/ Stop(q) \/ End(q)
  \/ \E b \in Browsers : Hear(b)
=============================================================================
