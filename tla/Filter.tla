------------------------------- MODULE Filter --------------------------------
(***************************************************************************)
(* filter.cpp: execute_filter(), the expressions of the "filters" section  *)
(* (configuration.cpp, load_filters()).                                    *)
(*                                                                         *)
(* A pattern is the sequence of its words: "(", ")", an operation, and     *)
(* terms field="value" or field!="value".  A word is taken to be followed  *)
(* by a space where the code looks for one and a quoted value to end.      *)
(* A message is its meta data, a function from field names to s_value;     *)
(* a number has an empty s_value.                                          *)
(***************************************************************************)
EXTENDS Integers, Sequences, SequencesExt, FiniteSets, FiniteSetsExt

Open == [kind |-> "open"]
Close == [kind |-> "close"]
Operation(op) == [kind |-> "operation", op |-> op]
Term(field, equals, value) ==
    [kind |-> "term", field |-> field, equals |-> equals, value |-> value]

\* "exit" is error_exit().
Results == {"yes", "no", "exit"}
AsResult(b) == IF b THEN "yes" ELSE "no"

-----------------------------------------------------------------------------
\* The level of parentheses after the first n words, counted from 1.
Level(words, n) ==
    1 + Cardinality({i \in 1..n : words[i] = Open})
      - Cardinality({i \in 1..n : words[i] = Close})

\* retrieve_subfilter(): where the sub-filter ends, if it does.
Ends(words) == {i \in DOMAIN words : Level(words, i) = 0}

\* One condition; a field that is missing counts as a match or ends the program.
Compare(term, ignore, meta) ==
    IF term.field \notin DOMAIN meta
    THEN IF ignore THEN "yes" ELSE "exit"
    ELSE AsResult((meta[term.field] = term.value) = term.equals)

(* Deliberately wrong variants, used to show that the properties bite. *)
Combined_ShortCircuit(rc, operation, cur) ==
    CASE operation = "" -> cur
      [] operation = "&&" -> IF rc = "no" THEN rc ELSE cur
      [] operation = "||" -> IF rc = "yes" THEN rc ELSE cur
      [] OTHER -> "exit"

\* rc with the operation and cur_rc, which was computed in any case.
Combined(rc, operation, cur) ==
    CASE cur = "exit" -> "exit"
      [] cur # "exit" /\ operation = "" -> cur
      [] cur # "exit" /\ operation = "&&" -> AsResult(rc = "yes" /\ cur = "yes")
      [] cur # "exit" /\ operation = "||" -> AsResult(rc = "yes" \/ cur = "yes")
      [] OTHER -> "exit"

\* The loop of execute_filter() from a position on.
RECURSIVE Continue(_, _, _, _, _)
Continue(words, rc, operation, ignore, meta) ==
    IF words = <<>> \/ rc = "exit" THEN rc
    ELSE LET rest == Tail(words)
         IN  CASE Head(words).kind = "operation" ->
                    Continue(rest, rc, Head(words).op, ignore, meta)
               [] Head(words).kind = "term" ->
                    Continue(rest,
                             Combined(rc, operation, Compare(Head(words), ignore, meta)),
                             "", ignore, meta)
               [] Head(words) = Open ->
                    IF Ends(rest) = {} THEN "exit"
                    ELSE LET end == Min(Ends(rest))
                             cur == Continue(SubSeq(rest, 1, end - 1), "no", "",
                                             ignore, meta)
                         IN  Continue(SubSeq(rest, end + 1, Len(rest)),
                                      Combined(rc, operation, cur), "",
                                      ignore, meta)

\* execute_filter(filter, ignore_if_field_is_missing, m)
Execute(words, ignore, meta) == Continue(words, "no", "", ignore, meta)

-----------------------------------------------------------------------------
(* What a pattern means, by its structure: a chain of operands, which are  *)
(* terms or chains in parentheses, with an operation between each two.     *)

Chain(operands, ops) == [kind |-> "chain", operands |-> operands, ops |-> ops]

RECURSIVE Words(_)
Words(e) ==
    IF e.kind = "term" THEN <<e>>
    ELSE FlattenSeq([i \in DOMAIN e.operands |->
            (IF i = 1 THEN <<>> ELSE <<Operation(e.ops[i - 1])>>) \o
            (IF e.operands[i].kind = "term" THEN <<e.operands[i]>>
             ELSE <<Open>> \o Words(e.operands[i]) \o <<Close>>)])

\* Some operand holds that the chain begins with or "||" brings in, and all
\* that a "&&" adds after it hold as well.
RECURSIVE Holds(_, _)
Holds(e, meta) ==
    IF e.kind = "term"
    THEN e.field \in DOMAIN meta => (meta[e.field] = e.value <=> e.equals)
    ELSE \E i \in DOMAIN e.operands :
            /\ i = 1 \/ (i > 1 /\ e.ops[i - 1] = "||")
            /\ Holds(e.operands[i], meta)
            /\ \A j \in (i + 1)..Len(e.operands) :
                  e.ops[j - 1] = "&&" => Holds(e.operands[j], meta)

RECURSIVE FieldsOf(_)
FieldsOf(e) == IF e.kind = "term" THEN {e.field}
               ELSE UNION {FieldsOf(e.operands[i]) : i \in DOMAIN e.operands}

\* The usual reading, "&&" before "||": some run of "&&" holds altogether.
RECURSIVE Usual(_, _)
Usual(e, meta) ==
    IF e.kind = "term"
    THEN e.field \in DOMAIN meta => (meta[e.field] = e.value <=> e.equals)
    ELSE \E i \in DOMAIN e.operands, n \in DOMAIN e.operands :
            /\ i <= n
            /\ i = 1 \/ (i > 1 /\ e.ops[i - 1] = "||")
            /\ n = Len(e.operands) \/ (n < Len(e.operands) /\ e.ops[n] = "||")
            /\ \A j \in i..n : Usual(e.operands[j], meta)

\* No "&&" comes after an "||" of the same level.
RECURSIVE Grouped(_)
Grouped(e) ==
    e.kind = "chain" =>
        /\ \A i, j \in DOMAIN e.ops : i < j /\ e.ops[i] = "||" => e.ops[j] = "||"
        /\ \A i \in DOMAIN e.operands : Grouped(e.operands[i])
=============================================================================
