---------------------------- MODULE MCDashboard -----------------------------
(* Dashboard on small sets, for TLC. *)
EXTENDS Dashboard, TLC

CONSTANTS b1, b2, q1, q2, a1, a2, s1, s2

\* Each browser asks a question and runs an analysis.
AskerOf == (q1 :> b1) @@ (q2 :> b2)
RunnerOf == (a1 :> b1) @@ (a2 :> b2)

\* Only the chat shows one browser what another has asked for.
AudienceOf == [p \in Pages |-> IF p = "chat" THEN {b1, b2} ELSE {b1}]

\* Where repeats are told apart: an event heard twice makes a page ask twice, as its
\* timer does anyway, and a token written twice is still one of its own answer.
CopiesOf == [p \in Pages |-> IF p \in {"trades", "replay"} THEN {1, 2} ELSE {1}]

\* A replay of three frames and one of a single frame.
FramesOf == (s1 :> 3) @@ (s2 :> 1)

Answer(sections, score, justified, choice) ==
  [sections |-> sections, score |-> score, justified |-> justified, choice |-> choice]

\* An answer as the prompt asks for it, which advises to wait and says when to go,
\* and one with hardly anything and an impossible confidence.
Full ==
  Answer(("TENDENCIA" :> {"BULLISH", "FORTE"}) @@ ("SUGESTAO" :> {"AGUARDAR", "OPERAR"})
           @@ ("CONFIDENCE SCORE" :> {}) @@ ("RACIOCINIO" :> {"reason"})
           @@ ("RISCOS E INVALIDADORES" :> {"risk"}),
         80, TRUE, "AGUARDAR")

Sparse == Answer("CONFIDENCE SCORE" :> {}, 150, FALSE, "nothing")

SmallAnswers == {(a1 :> Full) @@ (a2 :> Sparse)}

\* The symbol of the sidebar, which Yahoo has, and one it has not, the price of which
\* is taken a thousand times too low for the integers of TLC.
SmallBase == ("PETR4" :> 28500000) @@ ("WINQ" :> 131000000)

Bar(open, high, low, close) == [open |-> open, high |-> high, low |-> low, close |-> close]

\* A day that rises by the hour, to a price between two of those that are shown, and
\* ends with a row that is no candle; and hours without any row after days that fall.
SmallFeeds ==
  {DOWN,
   "PETR4" :> (("H1" :> <<Bar(28300000, 28400000, 28300000, 28381230),
                          Bar(28381230, 28600000, 28380000, 28505000),
                          Bar(28505070, 28505000, 28400000, 28600000)>>)
                 @@ ("D1" :> <<>>)),
   "PETR4" :> (("H1" :> <<>>)
                 @@ ("D1" :> <<Bar(28600000, 28600000, 28300000, 28600000),
                               Bar(28600000, 28600000, 28300000, 28400000)>>))}

\* The bridge also has symbols of which more decimals are shown.
SmallTape ==
  <<[symbol |-> "PETR4", price |-> 28505000], [symbol |-> "EURUSD", price |-> 1085030]>>

\* A bound on the replay page, of which the property says nothing more once a second
\* replay is there or a connection has broken off: no second replay after a failure or
\* a loss, and no loss after a connection that broke off.
SmallReplay ==
  /\ refusals > 0 \/ losses > 0 => Cardinality({s \in Replays : row[s] # NoReplay}) <= 1
  /\ strayed => losses = 0

Paragraph(assets, reach, headed, inline, support, resistance) ==
  [assets |-> assets, reach |-> reach, headed |-> headed, inline |-> inline,
   support |-> support, resistance |-> resistance]

\* A text as it should be, one that names both assets in its title, one without a
\* level for one of them, and one that leaves an asset out.
SmallTexts ==
  {<<Paragraph({"PETR4"}, TRUE, TRUE, FALSE, "decimal", "none"),
     Paragraph({"WINQ"}, TRUE, TRUE, FALSE, "thousands", "thousands")>>,
   <<Paragraph({"PETR4", "WINQ"}, TRUE, TRUE, FALSE, "none", "none"),
     Paragraph({"PETR4"}, TRUE, TRUE, TRUE, "decimal", "decimal"),
     Paragraph({"WINQ"}, FALSE, FALSE, FALSE, "thousands", "none")>>,
   <<Paragraph({"PETR4"}, TRUE, TRUE, TRUE, "decimal", "none"),
     Paragraph({"WINQ"}, TRUE, TRUE, TRUE, "none", "none")>>,
   <<Paragraph({"PETR4"}, TRUE, TRUE, FALSE, "decimal", "decimal")>>}
=============================================================================
