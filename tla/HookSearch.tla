----------------------------- MODULE HookSearch ----------------------------
(***************************************************************************)
(* The search for the place of the second hook: find_unity_hook_loc        *)
(* (src/main.cpp), and findNth with its conversions (capstone-utils),      *)
(* which it ends in and which the other xref helpers are made of.          *)
(*                                                                         *)
(* Memory is a function from addresses to instructions, with addresses     *)
(* counted in instructions and the sizes of ranges in bytes, four for each *)
(* instruction.  An instruction is what the searches look at:              *)
(*   id    what capstone decodes it to ("INVALID" when it cannot)          *)
(*   arg   a register it reads, or the condition of a branch               *)
(*   to    where it branches or points to                                  *)
(* Reading an address that is not mapped is a segmentation fault.  With     *)
(* less than four bytes left capstone decodes nothing and reads nothing.   *)
(***************************************************************************)
EXTENDS Integers, Sequences, FiniteSets

CONSTANTS
  Codes,         \* the memories considered
  Icalls,        \* what il2cpp_resolve_icall may know: functions from names to addresses
  Queries,       \* the searches that other callers of findNth make, in each memory
  MethodLength,  \* find_unity_hook_loc looks for the end of a method in so many instructions
  SearchBytes,   \* szBytes, the size of a range by default
  SizeModulus    \* sizes are unsigned: 2^64

AddrSearchPair == [addr : Int, rem : 0..(SizeModulus - 1)]

(* The arguments of findNth.                                               *)
Query(q) ==
  /\ q.conv \in {"bConv", "blConv", "pcRelConv", "regMatchConv", "findIns", "matchBCond"}
  /\ q.nToRetOn \in Nat \ {0}
  /\ q.retCount \in Int
  /\ q.addrs # <<>>
  /\ q.addrs \in Seq(AddrSearchPair)

ASSUME SearchAssumption ==
  /\ \A mem \in Codes : IsFiniteSet(DOMAIN mem) /\ DOMAIN mem \subseteq Int
  /\ \A mem \in Codes : \A a \in DOMAIN mem : mem[a].to \in Int
  /\ \A names \in Icalls : \A name \in DOMAIN names : names[name] \in Int
  /\ \A mem \in Codes : \A q \in Queries[mem] : Query(q)
  /\ MethodLength \in Nat
  /\ SizeModulus \in Nat /\ SizeModulus >= 4
  /\ SearchBytes \in 0..(SizeModulus - 1) /\ SearchBytes % 4 = 0

VARIABLES
  code,       \* fixed
  icalls,     \* fixed
  caller,     \* "find_unity_hook_loc", or "client": any other caller of findNth
  pc,         \* "idle", "find_ret", "find_bl", "findNth", "found", "null" or "fault"
  query,      \* the arguments of findNth
  searchIdx,  \* the range that findNth is in
  addr,       \* the instruction that is next, in each of the loops
  rem,        \* remSearchSize of the range, in bytes
  nToRetOn,
  retCount,
  entry       \* destroy_immediate

scanVars == <<query, searchIdx, rem, nToRetOn, retCount>>
vars == <<code, icalls, caller, pc, addr, entry, scanVars>>

Init ==
  /\ code \in Codes
  /\ icalls \in Icalls
  /\ caller = "none"
  /\ pc = "idle"
  /\ addr = 0
  /\ entry = 0
  /\ query = [conv |-> "none"]
  /\ searchIdx = 0
  /\ rem = 0
  /\ nToRetOn = 0
  /\ retCount = 0

-----------------------------------------------------------------------------
(* The conversions that findNth is called with: whether the instruction is *)
(* a match, and which instructions count without being an answer.          *)
bConv(insn) == insn.id = "B"  \* also b.cond: capstone gives it the same id
blConv(insn) == insn.id = "BL"
pcRelConv(insn) == insn.id \in {"ADR", "ADRP"}
regMatchConv(insn, reg) == insn.id \in {"ADD", "LDR"} /\ insn.arg = reg
findIns(insn, id) == insn.id = id
matchBCond(insn, cond) == insn.id = "B" /\ insn.arg = cond

Match(q, insn) ==
  CASE q.conv = "bConv" -> bConv(insn)
    [] q.conv = "blConv" -> blConv(insn)
    [] q.conv = "pcRelConv" -> pcRelConv(insn)
    [] q.conv = "regMatchConv" -> regMatchConv(insn, q.arg)
    [] q.conv = "findIns" -> findIns(insn, q.arg)
    [] q.conv = "matchBCond" -> matchBCond(insn, q.arg)

insnMatch(q, insn) == insn.id \in q.skip

(* What bConv and blConv make of the match at addr: where it leads.         *)
answer == code[addr].to

(* find_through_hooks: one range.                                          *)
OneRange(a, bytes) == <<[addr |-> a, rem |-> bytes]>>

(* findNthB<1, false>(a).                                                  *)
findNthB(a) ==
  [conv |-> "bConv", skip |-> {}, nToRetOn |-> 1, retCount |-> -1,
   addrs |-> OneRange(a, SearchBytes)]

-----------------------------------------------------------------------------
(* findNth, one iteration of its loops in each step.                       *)

findNth(q) ==
  /\ pc' = "findNth"
  /\ query' = q
  /\ searchIdx' = 1
  /\ addr' = q.addrs[1].addr
  /\ rem' = q.addrs[1].rem
  /\ nToRetOn' = q.nToRetOn
  /\ retCount' = q.retCount

Searching == pc = "findNth" /\ rem >= 4 /\ addr \in DOMAIN code
insn == code[addr]

(* Mutant: the size is signed.                                             *)
Minus4_Signed(size) == size - 4

(* remSearchSize -= 4.                                                     *)
Minus4(size) == IF size >= 4 THEN size - 4 ELSE SizeModulus + size - 4

(* capstone and the code for what it cannot decode go on by one instruction *)
(* each.                                                                   *)
Advance ==
  /\ addr' = addr + 1
  /\ rem' = Minus4(rem)
  /\ UNCHANGED <<pc, query, searchIdx>>

Finish(outcome) == pc' = outcome /\ UNCHANGED <<addr, scanVars>>

(* The search gives up at the ret after retCount others; a negative number *)
(* never gets to zero.                                                     *)
SearchRet ==
  /\ Searching /\ insn.id = "RET"
  /\ IF retCount = 0 THEN Finish("null")
     ELSE Advance /\ retCount' = retCount - 1 /\ UNCHANGED nToRetOn
  /\ UNCHANGED <<code, icalls, caller, entry>>

Counts == insn.id # "RET" /\ (Match(query, insn) \/ insnMatch(query, insn))

(* Mutant: what is to be skipped is not counted.                           *)
SearchHit_MatchesOnly ==
  /\ Searching /\ Counts
  /\ IF nToRetOn = 1 /\ Match(query, insn)
     THEN Finish("found")
     ELSE /\ Advance
          /\ nToRetOn' = IF Match(query, insn) THEN nToRetOn - 1 ELSE nToRetOn
          /\ UNCHANGED retCount
  /\ UNCHANGED <<code, icalls, caller, entry>>

(* The nth one is the answer if it is a match; one that is only to be       *)
(* skipped has no destination.                                             *)
SearchHit ==
  /\ Searching /\ Counts
  /\ IF nToRetOn = 1
     THEN Finish(IF Match(query, insn) THEN "found" ELSE "null")
     ELSE Advance /\ nToRetOn' = nToRetOn - 1 /\ UNCHANGED retCount
  /\ UNCHANGED <<code, icalls, caller, entry>>

(* Mutant: invalid instructions are not stepped over.                      *)
SearchOther_Stays ==
  /\ Searching /\ insn.id # "RET" /\ ~Counts
  /\ IF insn.id = "INVALID" THEN UNCHANGED <<pc, addr, scanVars>>
     ELSE Advance /\ UNCHANGED <<nToRetOn, retCount>>
  /\ UNCHANGED <<code, icalls, caller, entry>>

(* Other instructions and invalid ones are stepped over.                   *)
SearchOther ==
  /\ Searching /\ insn.id # "RET" /\ ~Counts
  /\ Advance
  /\ UNCHANGED <<code, icalls, caller, entry, nToRetOn, retCount>>

(* The end of a range whose size is no multiple of 4 is stepped over like   *)
(* an invalid instruction, and the size that is left wraps around.         *)
SearchShort ==
  /\ pc = "findNth" /\ rem \in 1..3
  /\ Advance
  /\ UNCHANGED <<code, icalls, caller, entry, nToRetOn, retCount>>

(* The counts are carried over to the next range.                          *)
SearchNextRange ==
  /\ pc = "findNth" /\ rem = 0 /\ searchIdx < Len(query.addrs)
  /\ searchIdx' = searchIdx + 1
  /\ addr' = query.addrs[searchIdx + 1].addr
  /\ rem' = query.addrs[searchIdx + 1].rem
  /\ UNCHANGED <<code, icalls, caller, pc, entry, query, nToRetOn, retCount>>

SearchEnd ==
  /\ pc = "findNth" /\ rem = 0 /\ searchIdx = Len(query.addrs)
  /\ Finish("null")
  /\ UNCHANGED <<code, icalls, caller, entry>>

(* Nothing is mapped where the search has got to.                          *)
SearchFault ==
  /\ pc = "findNth" /\ rem >= 4 /\ addr \notin DOMAIN code
  /\ Finish("fault")
  /\ UNCHANGED <<code, icalls, caller, entry>>

SearchNext ==
  \/ SearchRet
  \/ SearchHit
  \/ SearchOther
  \/ SearchShort
  \/ SearchNextRange
  \/ SearchEnd
  \/ SearchFault

-----------------------------------------------------------------------------
(* find_unity_hook_loc.                                                    *)

(* The answers of il2cpp_resolve_icall for DestroyImmediate, or else for    *)
(* DestroyImmediate_Injected; without that function no name is known.      *)
Methods ==
  IF "DestroyImmediate" \in DOMAIN icalls THEN {icalls["DestroyImmediate"]}
  ELSE {icalls[name] : name \in {"DestroyImmediate_Injected"} \intersect DOMAIN icalls}

resolve_icall ==
  /\ pc = "idle"
  /\ caller' = "find_unity_hook_loc"
  /\ \/ \E method \in Methods :
          /\ entry' = method
          /\ addr' = method
          /\ pc' = "find_ret"
     \/ /\ Methods = {}
        /\ pc' = "null"
        /\ UNCHANGED <<entry, addr>>
  /\ UNCHANGED <<code, icalls, scanVars>>

methodVars == <<code, icalls, caller, entry, scanVars>>

RET_OP(i) == i.id = "RET" /\ i.arg = "x30"  \* not the ret of another register

(* The first ret, in at most MethodLength instructions.                    *)
FindRet ==
  /\ pc = "find_ret"
  /\ \/ addr = entry + MethodLength /\ pc' = "null" /\ UNCHANGED addr
     \/ addr # entry + MethodLength /\ addr \notin DOMAIN code /\ pc' = "fault" /\ UNCHANGED addr
     \/ /\ addr # entry + MethodLength /\ addr \in DOMAIN code
        /\ IF RET_OP(insn) THEN pc' = "find_bl" /\ UNCHANGED addr
           ELSE addr' = addr + 1 /\ UNCHANGED pc
  /\ UNCHANGED methodVars

(* Mutant: the loop does not stop at the first bl it comes to.             *)
FindBl_NoBreak ==
  /\ pc = "find_bl"
  /\ LET bls == {a \in (entry + 1)..addr : code[a].id = "BL"} IN
     \/ bls = {} /\ pc' = "null" /\ UNCHANGED <<addr, scanVars>>
     \/ \E c \in bls : (\A a \in bls : c <= a) /\ findNth(findNthB(code[c].to))
  /\ UNCHANGED <<code, icalls, caller, entry>>

(* From there back to the last bl behind the first instruction; where it    *)
(* leads, findNthB takes over.                                             *)
FindBl ==
  /\ pc = "find_bl"
  /\ \/ addr = entry /\ pc' = "null" /\ UNCHANGED <<addr, scanVars>>
     \/ addr # entry /\ insn.id = "BL" /\ findNth(findNthB(insn.to))
     \/ addr # entry /\ insn.id # "BL" /\ addr' = addr - 1 /\ UNCHANGED <<pc, scanVars>>
  /\ UNCHANGED <<code, icalls, caller, entry>>

(* Any other caller of findNth.                                            *)
ClientSearch ==
  /\ pc = "idle"
  /\ caller' = "client"
  /\ \E q \in Queries[code] : findNth(q)
  /\ UNCHANGED <<code, icalls, entry>>

Next ==
  \/ resolve_icall
  \/ FindRet
  \/ FindBl
  \/ ClientSearch
  \/ SearchNext

Spec == Init /\ [][Next]_vars

(* The loops run on the thread that called them.                           *)
Running == pc # "idle" /\ Next
FairSpec == Spec /\ WF_vars(Running)

-----------------------------------------------------------------------------
Ended == {"found", "null", "fault"}

TypeOK ==
  /\ code \in Codes
  /\ icalls \in Icalls
  /\ caller \in {"none", "find_unity_hook_loc", "client"}
  /\ pc \in {"idle", "find_ret", "find_bl", "findNth"} \union Ended
  /\ addr \in Int
  /\ entry \in Int
  /\ rem \in 0..(SizeModulus - 1)
  /\ nToRetOn \in Nat
  /\ retCount \in Int
  /\ searchIdx \in Nat
  /\ pc = "findNth" => Query(query) /\ searchIdx \in DOMAIN query.addrs

-----------------------------------------------------------------------------
(* What findNth is to find, without loops and counters.                    *)

(* The places a search may look at: a range and an address in it.          *)
Places(q) ==
  {p \in (DOMAIN q.addrs) \X DOMAIN code :
     LET range == q.addrs[p[1]] IN
     range.addr <= p[2] /\ 4 * (p[2] - range.addr) < range.rem}

At(p) == code[p[2]]
Earlier(p1, p2) == p1[1] < p2[1] \/ (p1[1] = p2[1] /\ p1[2] < p2[2])

IsRet(p) == At(p).id = "RET"
IsHit(q, p) == ~IsRet(p) /\ (Match(q, At(p)) \/ insnMatch(q, At(p)))

RetsBefore(q, p) == {p1 \in Places(q) : Earlier(p1, p) /\ IsRet(p1)}
HitsBefore(q, p) == {p1 \in Places(q) : Earlier(p1, p) /\ IsHit(q, p1)}

(* It is a match, n - 1 others were counted before it, and not more rets    *)
(* than are allowed.                                                       *)
IsNth(q, p) ==
  /\ ~IsRet(p) /\ Match(q, At(p))
  /\ Cardinality(HitsBefore(q, p)) = q.nToRetOn - 1
  /\ q.retCount >= 0 => Cardinality(RetsBefore(q, p)) <= q.retCount

(* Of the overloads of findNth, only the one with an array of ranges does   *)
(* not require this.                                                       *)
Whole(q) == \A i \in DOMAIN q.addrs : q.addrs[i].rem % 4 = 0

(* findNth finds the nth match if there is one, and nothing else: across    *)
(* ranges, over instructions that cannot be decoded, and counting the ones  *)
(* without a destination.  Ranges are of whole instructions: behind the end *)
(* of another one the search goes on through memory.                       *)
FoundIsNth ==
  query.conv # "none" /\ Whole(query) =>
    /\ pc = "found" => IsNth(query, <<searchIdx, addr>>)
    /\ pc = "null" => \A p \in Places(query) : ~IsNth(query, p)

(* The xref trace of the comments, as a relation between places: from the   *)
(* method that il2cpp names, to its end, to "the last bl in the method", to *)
(* the first b behind that.  (The list at the head of the function says     *)
(* "2nd bl", which is the same in the method it was written for.)          *)
IsEnd(e, r) ==
  /\ r \in DOMAIN code /\ RET_OP(code[r]) /\ e <= r /\ r < e + MethodLength
  /\ \A a \in e..(r - 1) : a \in DOMAIN code /\ ~RET_OP(code[a])
IsLastCall(e, r, c) ==
  /\ e <= c /\ c <= r /\ code[c].id = "BL"
  /\ \A a \in (c + 1)..r : code[a].id # "BL"
IsFirstBranch(t, b) ==
  /\ b \in DOMAIN code /\ code[b].id = "B" /\ t <= b /\ 4 * (b - t) < SearchBytes
  /\ \A a \in t..(b - 1) : a \in DOMAIN code /\ code[a].id # "B"

Trace(e, c, b) ==
  /\ \E r \in DOMAIN code : IsEnd(e, r) /\ IsLastCall(e, r, c)
  /\ IsFirstBranch(code[c].to, b)

(* The place that is hooked is where the trace leads, and it is given up     *)
(* only when the trace leads nowhere, or when the only call of the method   *)
(* is its very first instruction: the loop stops before it looks at that.  *)
LocationIsTrace ==
  caller = "find_unity_hook_loc" =>
    /\ pc = "found" =>
         \E e \in Methods : \E c, b \in DOMAIN code : Trace(e, c, b) /\ code[b].to = answer
    /\ pc = "null" =>
         \A e \in Methods : \A c, b \in DOMAIN code : Trace(e, c, b) => c = e

(* Every search ends.                                                      *)
SearchEnds == pc # "idle" ~> pc \in Ended
=============================================================================
