---------------------------- MODULE TaineAnalyze ----------------------------
(***************************************************************************)
(* pebs_taine_analyze: what the analysis thread does with a record that is *)
(* new.  It reads the code between the cache miss and the branch miss,     *)
(* with some bytes on either side, from the process, disassembles it, has  *)
(* it executed symbolically (Explore), and sends the code when that finds  *)
(* an attack.                                                              *)
(*                                                                         *)
(* An address is a place in the page of the first byte that is read; get_  *)
(* user_pages_remote, the allocator and the length of an instruction are   *)
(* external and give what they please.                                     *)
(***************************************************************************)
EXTENDS Explore

CONSTANTS
  Page,    \* PAGE_SIZE
  Before,  \* OVER_HEAD_SIZE, the bytes before the cache miss
  After,   \* OVER_FOOT_SIZE, the bytes behind the code
  Branch,  \* 6, the most that the branch itself takes
  MaxCode, \* 100: with Branch, the longest code that is looked at
  MaxLen,  \* the most bytes of an instruction
  Starts,  \* where in its page the first byte that is read may be
  Subs     \* distances of the branch miss from the cache miss

ASSUME AnalyzeAssumption ==
  /\ Page \in Nat \ {0} /\ Starts \subseteq 0 .. Page - 1 /\ Subs \subseteq Nat
  /\ {Before, After, Branch, MaxCode, MaxLen} \subseteq Nat

VARIABLES
  pc,     \* "enter", "pages", "pin", "data", "info", "decode", "run", "release", "end"
  start,  \* cache_miss_addr - OVER_HEAD_SIZE, in its page
  sub,    \* branch_miss_addr - cache_miss_addr
  held,   \* what is allocated: "pages", "pin" (of the page), "data", "info"
  pos,    \* infos.EIP, from the cache miss on
  last,   \* where the last instruction of the list begins
  index,  \* instructions in the list
  oops,   \* memset of NULL, or the list was overrun
  sent    \* messages sent

outerVars == <<pc, start, sub, held, pos, last, index, oops, sent>>
vars == <<outerVars, exploreVars>>

ListSize == MaxSize - 1  \* DIASM_CODE_SIZE
CodeSize == sub + Branch + After + Before
(* nr_pages, which takes the end from the wrong side: one page, or none    *)
(* when the code, as far before the start, would not be in it.             *)
NrPages == (start + Page - CodeSize - 1) \div Page - (start + Page) \div Page + 1

Init ==
  /\ ExploreInit
  /\ pc = "enter" /\ start \in Starts /\ sub \in Subs
  /\ held = {} /\ pos = 0 /\ last = 0 /\ index = 0 /\ oops = FALSE /\ sent = 0

Goes(from, to) ==
  /\ pc = from /\ ~oops /\ fault = "none"
  /\ pc' = to
  /\ UNCHANGED <<start, sub>>
Same == UNCHANGED <<pos, last, index, oops, sent, exploreVars>>
-----------------------------------------------------------------------------
TooLong == CodeSize > MaxCode + After + Before

Refuse ==
  /\ TooLong \/ NrPages = 0
  /\ Goes("enter", "end")
  /\ Same /\ UNCHANGED held

Accept ==
  /\ ~TooLong /\ NrPages # 0
  /\ Goes("enter", "pages")
  /\ Same /\ UNCHANGED held

AllocPages ==
  \/ Goes("pages", "pin") /\ Same /\ held' = held \cup {"pages"}
  \/ Goes("pages", "end") /\ Same /\ UNCHANGED held

(* The process has no memory any more: the return forgets pages.           *)
NoMemory ==
  /\ Goes("pin", "end")
  /\ Same /\ UNCHANGED held

\* A mutant of GetUserPages.
GetUserPagesAgain ==
  \/ Goes("pin", "data") /\ Same /\ held' = held \cup {"pin"}
  \/ Goes("pin", "pages") /\ Same /\ held' = held \ {"pages"}
GetUserPages ==
  \/ Goes("pin", "data") /\ Same /\ held' = held \cup {"pin"}
  \/ Goes("pin", "end") /\ Same /\ held' = held \ {"pages"}

AllocData ==
  /\ Goes("data", "info")
  /\ Same /\ held' = held \cup {"data"}

(* The memset comes before the test.                                       *)
NoData ==
  /\ Goes("data", "data")
  /\ oops' = TRUE
  /\ UNCHANGED <<held, pos, last, index, sent, exploreVars>>

AllocInfo ==
  \/ Goes("info", "decode") /\ Same /\ held' = held \cup {"info"}
  \/ Goes("info", "end") /\ Same /\ held' = {}
-----------------------------------------------------------------------------
\* A mutant of AtEnd.
SignedAtEnd == pos >= sub \/ index >= ListSize

(* disassemble_code.  SecurityBlock is unsigned: the loop ends when the    *)
(* place of the branch is reached exactly, or when the list is full.       *)
AtEnd == pos = sub \/ index >= ListSize

Decode ==
  /\ ~AtEnd
  /\ \E len \in 1 .. MaxLen : pos' = pos + len
  /\ last' = pos /\ index' = index + 1
  /\ Goes("decode", "decode")
  /\ UNCHANGED <<held, oops, sent, exploreVars>>

(* An opcode that is not known, or bytes past the block.                   *)
Undecodable ==
  /\ Goes("decode", "release")
  /\ Same /\ UNCHANGED held

(* The branch; it goes behind the end of a list that is full.              *)
DecodeBranch ==
  /\ AtEnd
  /\ Goes("decode", "run")
  /\ last' = pos /\ index' = index + 1
  /\ Load(index + 1)
  /\ oops' \in IF index >= ListSize THEN BOOLEAN ELSE {FALSE}
  /\ UNCHANGED <<held, pos, sent>>

Run ==
  /\ pc = "run" /\ ~oops
  /\ Execute
  /\ UNCHANGED outerVars

(* send_msg_by_mmap, of an attack.                                         *)
Send ==
  /\ phase = "done"
  /\ Goes("run", "release")
  /\ sent' = sent + result
  /\ UNCHANGED <<held, pos, last, index, oops, exploreVars>>

\* A mutant of Release.
ReleaseButInfo ==
  /\ Goes("release", "end")
  /\ Same /\ held' = held \ {"pin", "pages", "data"}
Release ==
  /\ Goes("release", "end")
  /\ Same /\ held' = {}
-----------------------------------------------------------------------------
Next ==
  \/ Refuse \/ Accept \/ AllocPages \/ NoMemory \/ GetUserPages
  \/ AllocData \/ NoData \/ AllocInfo
  \/ Decode \/ Undecodable \/ DecodeBranch \/ Run \/ Send \/ Release

Spec == Init /\ [][Next]_vars
(* The thread runs on until it is done.                                    *)
FairSpec == Spec /\ WF_vars(Next)
-----------------------------------------------------------------------------
TypeOK ==
  /\ ExploreTypeOK
  /\ pc \in {"enter", "pages", "pin", "data", "info", "decode", "run", "release", "end"}
  /\ start \in Starts /\ sub \in Subs /\ held \subseteq {"pages", "pin", "data", "info"}
  /\ pos \in Nat /\ last \in Nat /\ index \in 0 .. MaxSize
  /\ oops \in BOOLEAN /\ sent \in 0 .. 1

(* The last instruction that is executed symbolically, the one that judge_ *)
(* attack looks at, is the branch that was missed - or lies outside the    *)
(* list (disassemble_code).                                                *)
JudgesMissedBranch == pc = "run" => last = sub \/ index > ListSize

(* At the end nothing is held, but the array of pages of a process without *)
(* memory and the copies of forks that were dropped; and a message was     *)
(* sent for an attack, and for nothing else (pebs_taine_analyze).          *)
EndsClean ==
  pc = "end" =>
    /\ held = {} \/ (held = {"pages"} /\ phase = "load")
    /\ sims = dropped
    /\ (sent = 1) <=> judged

(* The analysis comes to an end, for every code, unless it faults.         *)
AnalysisEnds == <>(pc = "end" \/ oops \/ fault # "none")
=============================================================================
