-------------------------------- MODULE HTRules --------------------------------
(***************************************************************************)
(* The rules that document names are translated, passed and failed by      *)
(* (HTRules.c).  A name is a sequence of characters, a pattern may have    *)
(* a "*" for any number of them.                                           *)
(***************************************************************************)
EXTENDS Integers, SequencesExt, FiniteSetsExt

CONSTANTS
  Lines,      \* of the rule file: sequences of words
  Required,      \* that are looked up
  MaxRules

VARIABLES rules,    \* the list, in the order the rules were defined
          status    \* of the last line: 0, or -2 for a syntax error

NoEquiv == << >>

rulesVars == << rules, status >>

HTAddRule(op, pattern, equiv) ==
  rules' = Append(rules, [ op |-> op, pattern |-> pattern, equiv |-> equiv ])

HTClearRules == rules' = << >> /\ UNCHANGED status

(* HTSetConfiguration, of the lines that are rules or nothing.             *)
HTSetConfiguration(line) ==
  LET word3 == IF Len(line) > 2 THEN line[3] ELSE NoEquiv
  IN  \/ /\ Len(line) = 0
         /\ status' = 0 /\ UNCHANGED rules
      \/ /\ Len(line) = 1
         /\ status' = -2 /\ UNCHANGED rules
      \/ /\ Len(line) > 1 /\ status' = 0
         /\ IF line[1] \in { "map", "pass", "fail" }
            THEN Len(rules) < MaxRules /\ HTAddRule(line[1], line[2], word3)
            ELSE UNCHANGED rules

(***************************************************************************)
(* HTTranslate: every rule is applied to what those before it made of the  *)
(* name, until one passes or fails it.                                     *)
(***************************************************************************)
Mismatch(p, q) ==
  LET n == Min({ Len(p), Len(q) })
  IN  Min({ i \in 1 .. n : p[i] # q[i] } \cup { n + 1 })

Wild(p, i) == i <= Len(p) /\ p[i] = "*"

(* How many characters the wildcard at i stands for: less than 0 if the    *)
(* name is too short for what comes after it.                              *)
Matched(p, q, i) == (Len(q) - i + 1) - (Len(p) - i)

Matches_short(p, q) ==
  LET i == Mismatch(p, q)
      m == Matched(p, q, i)
  IN  IF Wild(p, i)
      THEN SubSeq(q, i + m, Len(q)) = SubSeq(p, i + 1, Len(p))
      ELSE i > Len(p) /\ i > Len(q)

Matches(p, q) ==
  LET i == Mismatch(p, q)
      m == Matched(p, q, i)
  IN  IF Wild(p, i)
      THEN m >= 0 /\ SubSeq(q, i + m, Len(q)) = SubSeq(p, i + 1, Len(p))
      ELSE i > Len(p) /\ i > Len(q)

(* What was matched goes where the first * of the equivalent is. *)
Mapped(p, q, equiv) ==
  LET i    == Mismatch(p, q)
      bit  == SubSeq(q, i, i + Matched(p, q, i) - 1)
      star == { k \in DOMAIN equiv : equiv[k] = "*" }
      ins  == Min(star)
  IN  IF ~ Wild(p, i) \/ star = {} THEN equiv
      ELSE SubSeq(equiv, 1, ins - 1) \o bit \o SubSeq(equiv, ins + 1, Len(equiv))

Still(name)   == [ name |-> name, state |-> "open" ]
Past(name) == [ name |-> name, state |-> "passed" ]
Failed  == [ name |-> << >>, state |-> "failed" ]
Null    == [ name |-> << >>, state |-> "null" ]
Crashed == [ name |-> << >>, state |-> "crashed" ]

(* A rule that maps to nothing leaves a null pointer for the next one to   *)
(* follow; with a wildcard it follows one itself.                          *)
Apply(it, r) ==
  CASE it.state \in { "passed", "failed", "crashed" } -> it
    [] it.state = "null" -> Crashed
    [] it.state = "open" /\ ~ Matches(r.pattern, it.name) -> it
    [] it.state = "open" /\ Matches(r.pattern, it.name) ->
         CASE r.op = "fail" -> Failed
           [] r.op = "pass" /\ r.equiv = NoEquiv -> Past(it.name)
           [] r.op = "map" /\ r.equiv = NoEquiv ->
                IF Wild(r.pattern, Mismatch(r.pattern, it.name)) THEN Crashed ELSE Null
           [] r.op = "pass" /\ r.equiv # NoEquiv -> Past(Mapped(r.pattern, it.name, r.equiv))
           [] r.op = "map" /\ r.equiv # NoEquiv -> Still(Mapped(r.pattern, it.name, r.equiv))

HTTranslate(list, required) == FoldLeft(Apply, Still(required), list)

----------------------------------------------------------------------------

RulesInit == rules = << >> /\ status = 0

RulesNext == HTClearRules \/ \E line \in Lines : HTSetConfiguration(line)

Stars(p) == { k \in DOMAIN p : p[k] = "*" }

Filled(p, bit) ==
  IF Stars(p) = {} THEN p
  ELSE SubSeq(p, 1, Min(Stars(p)) - 1) \o bit \o SubSeq(p, Min(Stars(p)) + 1, Len(p))

PartsOf(name) ==
  { SubSeq(name, i, j) : i \in 1 .. Len(name) + 1, j \in 0 .. Len(name) }

(* HTTranslate: a name matches a pattern when some text, of any length,    *)
(* makes it of the pattern in place of the "*"; what comes before the "*"  *)
(* and what comes after it may not share characters of a short name.  That *)
(* text and no other takes the place of the "*" of the equivalent.         *)
WildcardsStandForText ==
  \A i \in DOMAIN rules, name \in Required :
    LET r    == rules[i]
        bits == { bit \in PartsOf(name) : Filled(r.pattern, bit) = name }
    IN  /\ Matches(r.pattern, name) <=> bits # {}
        /\ Stars(r.pattern) # {} =>
             \A bit \in bits : Mapped(r.pattern, name, r.equiv) = Filled(r.equiv, bit)

(* HTTranslate: "the most recently defined rules are applied first".       *)
MostRecentRulesApplyFirst ==
  \A name \in Required :
    HTTranslate(rules, name) = HTTranslate(Reverse(rules), name)

=============================================================================
