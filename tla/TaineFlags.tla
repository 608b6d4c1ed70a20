----------------------------- MODULE TaineFlags -----------------------------
(***************************************************************************)
(* The flags as the kernel module's taint analysis sees them               *)
(* (pebs_taine_tool.c): which branches it takes for decided, and which it  *)
(* reports because a secret may have reached their condition.              *)
(*                                                                         *)
(* For each flag the program keeps a value, a mark that the value is not   *)
(* known (rflags_unsure) and a mark that a secret reached it (rflags of    *)
(* the taint map).  Here each of the three is the set of the flags whose   *)
(* bit is 1, and a branch is its BranchType, 1..13 and -1..-9.             *)
(***************************************************************************)
EXTENDS Integers

Flags == {"cf", "pf", "af", "zf", "sf", "of"}

\* The bit of the flag in the word.
Bit == [cf |-> 0, pf |-> 2, af |-> 4, zf |-> 6, sf |-> 7, of |-> 11]

\* !GET_ZF(w): the macro is (w & (1 << 6)) >> 6 without parentheses around
\* it, so the negation is of w & (1 << 6) and the shift comes after it: what
\* is left is 0 unless the flag is bit 0 of the word.
NotGet(f, val) == f \notin val /\ Bit[f] = 0

(***************************************************************************)
(* analyze_branch_instruction: 1 taken, -1 not taken, 0 open, 2 call,      *)
(* 3 return; val and unsure are the values and the unknown flags.          *)
(***************************************************************************)
Single == [t \in {1, 2, 3, 5, 6, 9} |->
             CASE t = 1 -> "of" [] t \in {2, 9} -> "cf" [] t = 3 -> "zf"
               [] t = 5 -> "sf" [] t = 6 -> "pf"]

Sure1(f, val, unsure) == f \notin unsure /\ f \in val

SignIsOverflow(val) == ("sf" \in val) = ("of" \in val)

\* Both SF and OF are known and differ.
SureLess(val, unsure) ==
  {"sf", "of"} \cap unsure = {} /\ ~SignIsOverflow(val)

Open(c, yes, no) == IF c THEN 0 ELSE IF yes THEN 1 ELSE no

AnswerSingle(t, val, unsure) == Open(Single[t] \in unsure, Single[t] \in val, -1)

AnswerNotSingle(t, val, unsure) ==
  Open(Single[-t] \in unsure, NotGet(Single[-t], val), -1)

\* A mutant: ja left open only when neither flag is known.
AnswerAWaits(val, unsure) ==
  IF Sure1("cf", val, unsure) \/ Sure1("zf", val, unsure) THEN -1
  ELSE Open({"cf", "zf"} \subseteq unsure, TRUE, -1)

AnswerA(val, unsure) ==
  IF Sure1("cf", val, unsure) \/ Sure1("zf", val, unsure) THEN -1
  ELSE Open({"cf", "zf"} \cap unsure # {}, TRUE, -1)

AnswerNa(val, unsure) ==
  IF Sure1("zf", val, unsure) \/ Sure1("cf", val, unsure) THEN 1
  ELSE Open({"cf", "zf"} \subseteq unsure, FALSE, -1)

AnswerL(val, unsure) ==
  Open({"sf", "of"} \cap unsure # {}, ~SignIsOverflow(val), -1)

AnswerNl(val, unsure) ==
  Open({"sf", "of"} \cap unsure # {}, SignIsOverflow(val), -1)

AnswerG(val, unsure) ==
  IF Sure1("zf", val, unsure) \/ SureLess(val, unsure) THEN -1
  ELSE Open({"zf", "sf", "of"} \cap unsure # {}, TRUE, -1)

AnswerNg(val, unsure) ==
  IF Sure1("zf", val, unsure) \/ SureLess(val, unsure) THEN 1
  ELSE Open({"zf", "sf", "of"} \cap unsure # {}, FALSE, -1)

Answer(t, val, unsure) ==
  CASE t \in DOMAIN Single -> AnswerSingle(t, val, unsure)
    [] -t \in DOMAIN Single -> AnswerNotSingle(t, val, unsure)
    [] t = 4 -> AnswerA(val, unsure)
    [] t = -4 -> AnswerNa(val, unsure)
    [] t = 7 -> AnswerL(val, unsure)
    [] t = -7 -> AnswerNl(val, unsure)
    [] t = 8 -> AnswerG(val, unsure)
    [] t = -8 -> AnswerNg(val, unsure)

(***************************************************************************)
(* judge_attack: the flags a branch at the end of the missed path is held  *)
(* against; the branch is reported when one of them is tainted.            *)
(***************************************************************************)
\* A mutant: ja and jna held against CF only.
ReadCarryOnly(t) ==
  CASE t \in DOMAIN Single -> {Single[t]}
    [] -t \in DOMAIN Single -> {Single[-t]}
    [] t \in {4, -4} -> {"cf"}
    [] t \in {7, -7} -> {"sf", "of"}
    [] t \in {8, -8} -> {"zf", "sf", "of"}

Read(t) ==
  CASE t \in DOMAIN Single -> {Single[t]}
    [] -t \in DOMAIN Single -> {Single[-t]}
    [] t \in {4, -4} -> {"cf", "zf"}
    [] t \in {7, -7} -> {"sf", "of"}
    [] t \in {8, -8} -> {"zf", "sf", "of"}

JudgeAttack(t, taint) == Read(t) \cap taint # {}

(***************************************************************************)
(* setcc_analyze: the flags whose taint the byte takes and whether it is   *)
(* unknown.  The condition is found by the letters after "set": of the     *)
(* forms the decoder writes, setnbe is taken for setnb, setnl for setnle,  *)
(* and setl for none of them.                                              *)
(***************************************************************************)
SetNames == {"o", "no", "b", "nb", "e", "ne", "be", "nbe", "s", "ns", "p",
             "np", "nl", "l", "le", "nle"}

SetReads(cc) ==
  CASE cc \in {"o", "no"} -> {"of"}
    [] cc \in {"s", "ns"} -> {"sf"}
    [] cc \in {"e", "ne"} -> {"zf"}
    [] cc \in {"p", "np"} -> {"pf"}
    [] cc \in {"b", "nb", "nbe"} -> {"cf"}
    [] cc = "be" -> {"cf", "zf"}
    [] cc \in {"le", "nle", "nl"} -> {"zf", "sf", "of"}
    [] OTHER -> {}

SetUnsure(cc, val, unsure) ==
  CASE cc = "be" -> {"cf", "zf"} \subseteq unsure
    [] cc \in {"le", "nle", "nl"} ->
         /\ ~Sure1("zf", val, unsure)
         /\ ~SureLess(val, unsure)
         /\ {"zf", "sf", "of"} \cap unsure # {}
    [] OTHER -> SetReads(cc) \cap unsure # {}

SetByte(cc, val, taint, unsure) ==
  [taint |-> SetReads(cc) \cap taint # {}, unsure |-> SetUnsure(cc, val, unsure)]

-----------------------------------------------------------------------------
(***************************************************************************)
(* The conditions themselves, as the comment before each case names them.  *)
(***************************************************************************)
FlagBranches == (1 .. 9) \cup (-9 .. -1)

Holds(t, val) ==
  CASE t = 1 -> "of" \in val
    [] t \in {2, 9} -> "cf" \in val
    [] t = 3 -> "zf" \in val
    [] t = 4 -> {"cf", "zf"} \cap val = {}
    [] t = 5 -> "sf" \in val
    [] t = 6 -> "pf" \in val
    [] t = 7 -> ("sf" \in val) # ("of" \in val)
    [] t = 8 -> "zf" \notin val /\ (("sf" \in val) = ("of" \in val))

Condition(t, val) == IF t > 0 THEN Holds(t, val) ELSE ~Holds(-t, val)

\* The values the flags may really have when those in unsure are not known.
Completions(val, unsure) == {(val \ unsure) \cup u : u \in SUBSET unsure}

\* The answer is the condition's when it is settled, and open when it is not.
AnswerIsCondition(t, val, unsure) ==
  LET outcomes == {Condition(t, w) : w \in Completions(val, unsure)}
  IN  Answer(t, val, unsure) =
        IF outcomes = {TRUE} THEN 1 ELSE IF outcomes = {FALSE} THEN -1 ELSE 0

\* Some change of the flags in taint alone would turn the branch round.
DependsOn(t, taint) ==
  \E val \in SUBSET Flags :
    \E w \in Completions(val, taint) : Condition(t, val) # Condition(t, w)
=============================================================================
