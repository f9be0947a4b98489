---------------------------- MODULE AnalysisParser ---------------------------
(***************************************************************************)
(* What the server makes of the AI's answer to a chart analysis            *)
(* (prompts/analysis/response_parser.py) and of its confidence.            *)
(*                                                                         *)
(* An answer gives each section it contains the set of the words in it     *)
(* that the parser looks for.  Of the confidence score it has the number   *)
(* and whether a dash and a justification follow.  The levels, which no    *)
(* output has, and the texts of the scenarios are left out.                *)
(***************************************************************************)
EXTENDS Integers

Titles == {"TENDENCIA", "ESTRUTURA DE MERCADO", "RACIOCINIO", "SUGESTAO",
           "CONFIDENCE SCORE", "RISCOS E INVALIDADORES", "CENARIOS ALTERNATIVOS"}

(* _split_sections: the pattern of a heading has no E with a circumflex,   *)
(* and ends this one after four letters.                                   *)
Heading(title) == IF title = "TENDENCIA" THEN "TEND" ELSE title

Section(answer, title) ==
  IF \E t \in DOMAIN answer.sections : Heading(t) = title
  THEN answer.sections[title] ELSE {}

ParseTrend(words) ==
  [direction |-> IF "BULLISH" \in words THEN "BULLISH"
                 ELSE IF "BEARISH" \in words THEN "BEARISH" ELSE "LATERAL",
   strength  |-> IF "FORTE" \in words THEN "FORTE"
                 ELSE IF "MODERADA" \in words THEN "MODERADA" ELSE "FRACA"]

(* The whole section is searched, the reason the AI gives included.        *)
ParseSuggestion(words) ==
  IF "NAO OPERAR" \in words THEN "NAO_OPERAR"
  ELSE IF "OPERAR" \in words THEN "OPERAR"
  ELSE IF "AGUARDAR" \in words THEN "AGUARDAR" ELSE "REVISAR_CONTEXTO"

(* A number above 100 is cut if a justification follows, and otherwise     *)
(* refused by ConfidenceScore.                                             *)
ParseConfidence(answer) ==
  IF "CONFIDENCE SCORE" \notin DOMAIN answer.sections THEN 0
  ELSE IF answer.score <= 100 THEN answer.score
  ELSE IF answer.justified THEN 100 ELSE 0

Label(score) ==
  IF score >= 85 THEN "MUITO_ALTA"
  ELSE IF score >= 70 THEN "ALTA"
  ELSE IF score >= 50 THEN "MODERADA"
  ELSE IF score >= 30 THEN "BAIXA"
  ELSE "MUITO_BAIXA"

(* parse_analysis_response                                                 *)
Parse(answer) ==
  [trend      |-> ParseTrend(Section(answer, "TENDENCIA")),
   suggestion |-> ParseSuggestion(Section(answer, "SUGESTAO")),
   score      |-> ParseConfidence(answer),
   label      |-> Label(ParseConfidence(answer)),
   justification |-> IF "CONFIDENCE SCORE" \notin DOMAIN answer.sections THEN "not found"
                     ELSE IF answer.justified THEN "its own" ELSE "the section",
   reasoning  |-> Section(answer, "RACIOCINIO") # {},
   risks      |-> Section(answer, "RISCOS E INVALIDADORES") # {}]

Parsed ==
  [trend      : [direction : {"BULLISH", "BEARISH", "LATERAL"},
                 strength : {"FORTE", "MODERADA", "FRACA"}],
   suggestion : {"OPERAR", "AGUARDAR", "NAO_OPERAR", "REVISAR_CONTEXTO"},
   score      : 0 .. 100,
   label      : {"MUITO_ALTA", "ALTA", "MODERADA", "BAIXA", "MUITO_BAIXA"},
   justification : {"its own", "the section", "not found"},
   reasoning  : BOOLEAN,
   risks      : BOOLEAN]

-----------------------------------------------------------------------------
(* The row of an analysis, and what is read from it and sent.              *)

(* Defect: a column is left out.                                           *)
ToRowWithoutSuggestion(p) ==
  [p EXCEPT !.suggestion = "NULL", !.risks = IF @ THEN "their JSON" ELSE "NULL"]

(* _to_orm: no risks are no value.                                         *)
ToRow(p) == [p EXCEPT !.risks = IF @ THEN "their JSON" ELSE "NULL"]

(* _to_domain: without a justification there is no confidence.             *)
ToDomain(row) ==
  LET p == [row EXCEPT !.risks = @ # "NULL"]
  IN  IF row.justification = "" THEN [p EXCEPT !.score = -1, !.label = "none"] ELSE p

(* _to_output: what is missing has a default.  The strength is not sent.   *)
ToOutput(p) ==
  [trend      |-> p.trend.direction,
   suggestion |-> IF p.suggestion = "NULL" THEN "REVISAR_CONTEXTO" ELSE p.suggestion,
   score      |-> IF p.score = -1 THEN 0 ELSE p.score,
   label      |-> IF p.label = "none" THEN "MUITO_BAIXA" ELSE p.label,
   reasoning  |-> p.reasoning,
   risks      |-> p.risks]

-----------------------------------------------------------------------------
(* The page: where an answer has nothing to say, what an earlier one said  *)
(* stays on the screen.                                                    *)

Shown(score) == 100 * score

(* renderAnalysis                                                          *)
Render(old, a, out) ==
  [id         |-> a,
   trend      |-> out.trend,
   suggestion |-> out.suggestion,
   score      |-> Shown(out.score),
   reasoning  |-> IF out.reasoning THEN a ELSE old.reasoning,
   risks      |-> IF out.risks THEN a ELSE old.risks]
=============================================================================
