-------------------------- MODULE HookSearchProofs -------------------------
(***************************************************************************)
(* Theorems about HookSearch, for every memory, every search and every     *)
(* bound: findNth finds the nth match in ranges of whole instructions, and *)
(* find_unity_hook_loc follows the trace of its comments, or gives up      *)
(* because it leads nowhere or starts with its only call.                  *)
(*                                                                         *)
(* The counters of findNth say how many places it has counted so far; that *)
(* is what an answer is defined by.  The rest is arithmetic of finite sets *)
(* and of positions.                                                       *)
(***************************************************************************)
EXTENDS HookSearch, FiniteSetTheorems, TLAPS

-----------------------------------------------------------------------------
(* Lemmas about places.                                                    *)

LEMMA CodeFacts ==
  ASSUME code \in Codes
  PROVE  /\ IsFiniteSet(DOMAIN code)
         /\ DOMAIN code \subseteq Int
         /\ \A a \in DOMAIN code : code[a].to \in Int
BY SearchAssumption

(* A search looks at finitely many places.                                 *)
LEMMA FinitePlaces ==
  ASSUME code \in Codes, NEW q, Query(q)
  PROVE  IsFiniteSet(Places(q))
<1>1. IsFiniteSet(DOMAIN q.addrs)
  <2>1. Len(q.addrs) \in Nat /\ DOMAIN q.addrs = 1..Len(q.addrs)
    BY DEF Query
  <2>2. 1 \in Int /\ Len(q.addrs) \in Int
    BY <2>1
  <2>3. IsFiniteSet(1..Len(q.addrs))
    BY <2>2, FS_Interval
  <2> QED
    BY <2>1, <2>3
<1>2. IsFiniteSet((DOMAIN q.addrs) \X DOMAIN code)
  BY <1>1, CodeFacts, FS_Product
<1> QED
  BY <1>2, FS_Subset DEF Places

(* So the numbers of hits and rets before a place are numbers.             *)
LEMMA FiniteBefore ==
  ASSUME code \in Codes, NEW q, Query(q), NEW p
  PROVE  /\ IsFiniteSet(HitsBefore(q, p)) /\ Cardinality(HitsBefore(q, p)) \in Nat
         /\ IsFiniteSet(RetsBefore(q, p)) /\ Cardinality(RetsBefore(q, p)) \in Nat
<1>1. HitsBefore(q, p) \in SUBSET Places(q) /\ RetsBefore(q, p) \in SUBSET Places(q)
  BY DEF HitsBefore, RetsBefore
<1>2. IsFiniteSet(HitsBefore(q, p)) /\ IsFiniteSet(RetsBefore(q, p))
  BY <1>1, FinitePlaces, FS_Subset
<1> QED
  BY <1>2, FS_CardinalityType

LEMMA PlaceType ==
  ASSUME code \in Codes, NEW q, Query(q), NEW p \in Places(q)
  PROVE  /\ p = <<p[1], p[2]>>
         /\ p[1] \in DOMAIN q.addrs /\ p[1] \in Nat
         /\ p[2] \in DOMAIN code /\ p[2] \in Int
         /\ q.addrs[p[1]].addr <= p[2]
         /\ 4 * (p[2] - q.addrs[p[1]].addr) < q.addrs[p[1]].rem
<1>1. p \in (DOMAIN q.addrs) \X DOMAIN code
  BY DEF Places
<1>2. DOMAIN q.addrs \subseteq Nat
  BY DEF Query
<1> QED
  BY <1>1, <1>2, CodeFacts DEF Places

(* What the arguments of a search are made of.                             *)
LEMMA StartOfSearch ==
  ASSUME NEW q, Query(q)
  PROVE  /\ 1 \in DOMAIN q.addrs
         /\ \A i \in DOMAIN q.addrs :
              /\ i \in Nat /\ q.addrs[i].addr \in Int
              /\ q.addrs[i].rem \in Nat /\ q.addrs[i].rem \in 0..(SizeModulus - 1)
         /\ DOMAIN q.addrs = 1..Len(q.addrs) /\ Len(q.addrs) \in Nat
<1>1. Len(q.addrs) \in Nat /\ DOMAIN q.addrs = 1..Len(q.addrs) /\ Len(q.addrs) # 0
  BY DEF Query
<1>2. \A i \in DOMAIN q.addrs : q.addrs[i] \in AddrSearchPair
  BY DEF Query
<1>3. \A i \in DOMAIN q.addrs : q.addrs[i].addr \in Int /\ q.addrs[i].rem \in 0..(SizeModulus - 1)
  BY <1>2 DEF AddrSearchPair
<1> QED
  BY <1>1, <1>3, SearchAssumption

(* The size that is left is always one that is unsigned, and while there    *)
(* are four bytes it does not wrap around.                                 *)
LEMMA SizeType ==
  ASSUME rem \in 0..(SizeModulus - 1)
  PROVE  /\ rem \in Nat
         /\ rem > 0 => Minus4(rem) \in 0..(SizeModulus - 1)
         /\ rem >= 4 => Minus4(rem) = rem - 4
BY SearchAssumption DEF Minus4

(* Every place behind a hit has one more hit before it, and likewise for    *)
(* rets.                                                                   *)
LEMMA BehindCounts ==
  ASSUME code \in Codes, NEW q, Query(q), NEW p1 \in Places(q), NEW p2 \in Places(q),
         Earlier(p1, p2)
  PROVE  /\ IsHit(q, p1) => Cardinality(HitsBefore(q, p2)) > Cardinality(HitsBefore(q, p1))
         /\ IsRet(p1) => Cardinality(RetsBefore(q, p2)) > Cardinality(RetsBefore(q, p1))
<1>1. \A x \in Places(q) : Earlier(x, p1) => Earlier(x, p2)
  BY PlaceType DEF Earlier
<1>2. ~Earlier(p1, p1)
  BY PlaceType DEF Earlier
<1>3. ASSUME IsHit(q, p1)
      PROVE  Cardinality(HitsBefore(q, p2)) > Cardinality(HitsBefore(q, p1))
  <2>1. HitsBefore(q, p1) \union {p1} \in SUBSET HitsBefore(q, p2) /\ p1 \notin HitsBefore(q, p1)
    BY <1>1, <1>2, <1>3 DEF HitsBefore
  <2>2. Cardinality(HitsBefore(q, p1) \union {p1}) = Cardinality(HitsBefore(q, p1)) + 1
    BY <2>1, FiniteBefore, FS_AddElement
  <2>3. Cardinality(HitsBefore(q, p1) \union {p1}) <= Cardinality(HitsBefore(q, p2))
    BY <2>1, FiniteBefore, FS_Subset
  <2> QED
    BY <2>2, <2>3, FiniteBefore
<1>4. ASSUME IsRet(p1)
      PROVE  Cardinality(RetsBefore(q, p2)) > Cardinality(RetsBefore(q, p1))
  <2>1. RetsBefore(q, p1) \union {p1} \in SUBSET RetsBefore(q, p2) /\ p1 \notin RetsBefore(q, p1)
    BY <1>1, <1>2, <1>4 DEF RetsBefore
  <2>2. Cardinality(RetsBefore(q, p1) \union {p1}) = Cardinality(RetsBefore(q, p1)) + 1
    BY <2>1, FiniteBefore, FS_AddElement
  <2>3. Cardinality(RetsBefore(q, p1) \union {p1}) <= Cardinality(RetsBefore(q, p2))
    BY <2>1, FiniteBefore, FS_Subset
  <2> QED
    BY <2>2, <2>3, FiniteBefore
<1> QED
  BY <1>3, <1>4

-----------------------------------------------------------------------------
(* The invariant.                                                          *)

here == <<searchIdx, addr>>

(* Where findNth is in its range: the size and the address agree.           *)
InRange ==
  /\ rem % 4 = 0
  /\ query.addrs[searchIdx].rem - rem = 4 * (addr - query.addrs[searchIdx].addr)
  /\ query.addrs[searchIdx].addr <= addr
  /\ \A a \in query.addrs[searchIdx].addr..(addr - 1) : a \in DOMAIN code

(* What the counters stand for, and that no answer has been passed.        *)
Counted ==
  /\ Cardinality(HitsBefore(query, here)) = query.nToRetOn - nToRetOn
  /\ Cardinality(RetsBefore(query, here)) = query.retCount - retCount
  /\ query.retCount >= 0 => retCount >= 0
  /\ query.retCount < 0 => retCount < 0
  /\ \A p \in Places(query) : Earlier(p, here) => ~IsNth(query, p)

ScanInv ==
  /\ pc \in {"findNth", "found"} =>
       /\ Query(query)
       /\ searchIdx \in DOMAIN query.addrs
       /\ nToRetOn >= 1
       /\ Whole(query) => InRange /\ Counted
  /\ pc = "found" /\ Whole(query) => here \in Places(query)
  /\ pc \in {"idle", "find_ret", "find_bl"} => query.conv = "none"

(* The end of the method and its last call have been found, and the search *)
(* is, or was, for the first branch behind that.                           *)
Called(r, c) ==
  /\ IsEnd(entry, r) /\ IsLastCall(entry, r, c)
  /\ query = findNthB(code[c].to)

(* How far find_unity_hook_loc has got with the trace.                     *)
TraceInv ==
  /\ pc = "idle" => caller = "none"
  /\ pc \in {"find_ret", "find_bl"} => caller = "find_unity_hook_loc"
  /\ pc = "find_ret" =>
       /\ entry \in Methods /\ entry <= addr /\ addr <= entry + MethodLength
       /\ \A a \in entry..(addr - 1) : a \in DOMAIN code /\ ~RET_OP(code[a])
  /\ pc = "find_bl" =>
       /\ entry \in Methods
       /\ \E r \in DOMAIN code :
            /\ IsEnd(entry, r) /\ entry <= addr /\ addr <= r
            /\ \A a \in (addr + 1)..r : code[a].id # "BL"
  /\ caller = "find_unity_hook_loc" /\ pc \in {"findNth", "found"} =>
       entry \in Methods /\ \E r, c \in DOMAIN code : Called(r, c)
  /\ caller = "find_unity_hook_loc" /\ pc = "null" =>
       \/ entry \in Methods /\ \E r, c \in DOMAIN code : Called(r, c)
       \/ /\ query.conv = "none"
          /\ \A e \in Methods : \A r, c \in DOMAIN code :
               IsEnd(e, r) /\ IsLastCall(e, r, c) => c = e

IInv == TypeOK /\ ScanInv /\ FoundIsNth /\ TraceInv

-----------------------------------------------------------------------------
(* A step that leaves the memory and the search alone leaves the places     *)
(* alone.                                                                  *)
LEMMA SamePlaces ==
  ASSUME code' = code, query' = query
  PROVE  /\ Places(query)' = Places(query)
         /\ HitsBefore(query, here)' = HitsBefore(query, here')
         /\ RetsBefore(query, here)' = RetsBefore(query, here')
         /\ \A p \in Places(query) : IsNth(query, p)' <=> IsNth(query, p)
<1>1. Places(query)' = Places(query)
  BY DEF Places
<1>2. \A p : HitsBefore(query, p)' = HitsBefore(query, p)
  BY <1>1 DEF HitsBefore, IsHit, IsRet, At
<1>3. \A p : RetsBefore(query, p)' = RetsBefore(query, p)
  BY <1>1 DEF RetsBefore, IsRet, At
<1>4. HitsBefore(query, here)' = HitsBefore(query, here')
  BY <1>1 DEF HitsBefore, IsHit, IsRet, At
<1>5. RetsBefore(query, here)' = RetsBefore(query, here')
  BY <1>1 DEF RetsBefore, IsRet, At
<1>6. \A p : IsNth(query, p)' <=> IsNth(query, p)
  BY <1>2, <1>3 DEF IsNth, IsRet, At
<1> QED
  BY <1>1, <1>4, <1>5, <1>6

(* One instruction further on, one place more has been passed.             *)
LEMMA OnePlaceOn ==
  ASSUME TypeOK, Searching, InRange
  PROVE  LET next == <<searchIdx, addr + 1>> IN
         /\ here \in Places(query)
         /\ \A x \in Places(query) : Earlier(x, next) <=> Earlier(x, here) \/ x = here
         /\ Cardinality(HitsBefore(query, next)) =
              Cardinality(HitsBefore(query, here)) + (IF IsHit(query, here) THEN 1 ELSE 0)
         /\ Cardinality(RetsBefore(query, next)) =
              Cardinality(RetsBefore(query, here)) + (IF IsRet(here) THEN 1 ELSE 0)
<1> DEFINE next == <<searchIdx, addr + 1>>
<1>0. code \in Codes /\ Query(query) /\ addr \in Int /\ rem \in Nat /\ rem > 0
      /\ searchIdx \in DOMAIN query.addrs /\ searchIdx \in Nat
      /\ query.addrs[searchIdx].addr \in Int /\ query.addrs[searchIdx].rem \in Nat
  <2>1. code \in Codes /\ addr \in Int /\ rem \in Nat /\ rem > 0 /\ searchIdx \in Nat
        /\ Query(query) /\ searchIdx \in DOMAIN query.addrs
    BY SizeType DEF TypeOK, Searching
  <2> QED
    BY <2>1, StartOfSearch
<1>1. here \in Places(query)
  BY <1>0 DEF here, Places, InRange, Searching
<1>2. \A x \in Places(query) : Earlier(x, next) <=> Earlier(x, here) \/ x = here
  BY <1>0, PlaceType DEF here, Earlier
<1>3. ~Earlier(here, here)
  BY <1>0 DEF here, Earlier
<1>4. IsHit(query, here) => HitsBefore(query, next) = HitsBefore(query, here) \union {here}
  BY <1>1, <1>2 DEF HitsBefore
<1>5. ~IsHit(query, here) => HitsBefore(query, next) = HitsBefore(query, here)
  BY <1>1, <1>2 DEF HitsBefore
<1>6. IsRet(here) => RetsBefore(query, next) = RetsBefore(query, here) \union {here}
  BY <1>1, <1>2 DEF RetsBefore
<1>7. ~IsRet(here) => RetsBefore(query, next) = RetsBefore(query, here)
  BY <1>1, <1>2 DEF RetsBefore
<1>8. here \notin HitsBefore(query, here) /\ here \notin RetsBefore(query, here)
  BY <1>3 DEF HitsBefore, RetsBefore
<1>9. /\ Cardinality(HitsBefore(query, here) \union {here}) = Cardinality(HitsBefore(query, here)) + 1
      /\ Cardinality(RetsBefore(query, here) \union {here}) = Cardinality(RetsBefore(query, here)) + 1
  BY <1>0, <1>8, FiniteBefore, FS_AddElement
<1>10. Cardinality(HitsBefore(query, here)) \in Nat /\ Cardinality(RetsBefore(query, here)) \in Nat
  BY <1>0, FiniteBefore
<1>11. Cardinality(HitsBefore(query, next)) =
         Cardinality(HitsBefore(query, here)) + (IF IsHit(query, here) THEN 1 ELSE 0)
  <2>1. CASE IsHit(query, here)
    BY <1>4, <1>9, <1>10, <2>1
  <2>2. CASE ~IsHit(query, here)
    BY <1>5, <1>9, <1>10, <2>2
  <2> QED
    BY <2>1, <2>2
<1>12. Cardinality(RetsBefore(query, next)) =
         Cardinality(RetsBefore(query, here)) + (IF IsRet(here) THEN 1 ELSE 0)
  <2>1. CASE IsRet(here)
    BY <1>6, <1>9, <1>10, <2>1
  <2>2. CASE ~IsRet(here)
    BY <1>7, <1>9, <1>10, <2>2
  <2> QED
    BY <2>1, <2>2
<1> QED
  BY <1>1, <1>2, <1>11, <1>12

(* What the conditions of findNth say of the place it is at.               *)
LEMMA HereIs ==
  ASSUME Searching
  PROVE  /\ IsRet(here) <=> insn.id = "RET"
         /\ IsHit(query, here) <=> Counts
         /\ IsNth(query, here) =>
              Match(query, insn) /\ Cardinality(HitsBefore(query, here)) = query.nToRetOn - 1
BY DEF here, IsRet, IsHit, IsNth, At, insn, Counts

-----------------------------------------------------------------------------
(* The invariant is one.                                                   *)

LEMMA InitIInv == Init => IInv
<1> SUFFICES ASSUME Init PROVE IInv
  OBVIOUS
<1> QED
  BY SearchAssumption DEF Init, IInv, TypeOK, ScanInv, FoundIsNth, TraceInv, Ended

(* The arguments of findNthB.                                              *)
LEMMA BranchQuery ==
  ASSUME NEW a \in Int
  PROVE  Query(findNthB(a)) /\ findNthB(a).conv # "none" /\ Whole(findNthB(a))
<1>1. [addr |-> a, rem |-> SearchBytes] \in AddrSearchPair
  BY SearchAssumption DEF AddrSearchPair
<1>2. OneRange(a, SearchBytes) \in Seq(AddrSearchPair) /\ OneRange(a, SearchBytes) # <<>>
  BY <1>1 DEF OneRange
<1>3. Query(findNthB(a)) /\ findNthB(a).conv # "none"
  BY <1>2 DEF findNthB, Query
<1>4. findNthB(a).addrs = <<[addr |-> a, rem |-> SearchBytes]>>
  BY DEF findNthB, OneRange
<1>5. \A i \in DOMAIN findNthB(a).addrs : findNthB(a).addrs[i].rem = SearchBytes
  BY <1>4
<1> QED
  BY <1>3, <1>5, SearchAssumption DEF Whole

(* Where a method is named, it is a place.                                 *)
LEMMA MethodsType ==
  ASSUME icalls \in Icalls
  PROVE  /\ Methods \subseteq Int
         /\ \A e1, e2 \in Methods : e1 = e2
BY SearchAssumption DEF Methods

(* The last call is a place with a destination.                            *)
LEMMA CallType ==
  ASSUME IInv, pc = "find_bl"
  PROVE  addr \in DOMAIN code /\ insn.to \in Int
<1> USE DEF IInv, TypeOK
<1>1. code \in Codes /\ addr \in Int /\ entry \in Int
  OBVIOUS
<1>2. PICK r \in DOMAIN code : IsEnd(entry, r) /\ entry <= addr /\ addr <= r
  BY DEF TraceInv
<1>3. r \in Int
  BY <1>1, CodeFacts
<1>4. addr \in DOMAIN code
  BY <1>1, <1>2, <1>3 DEF IsEnd
<1> QED
  BY <1>1, <1>4, CodeFacts DEF insn

LEMMA NextTypeOK == IInv /\ [Next]_vars => TypeOK'
<1> SUFFICES ASSUME IInv, [Next]_vars PROVE TypeOK'
  OBVIOUS
<1>0. TypeOK
  BY DEF IInv
<1> USE DEF TypeOK, Ended, vars, scanVars, methodVars
<1>a. ASSUME NEW q, Query(q), findNth(q)
      PROVE  /\ addr' \in Int /\ rem' \in 0..(SizeModulus - 1)
             /\ nToRetOn' \in Nat /\ retCount' \in Int
             /\ searchIdx' \in Nat /\ pc' = "findNth" /\ Query(query')
             /\ searchIdx' \in DOMAIN query'.addrs
  <2>1. q.nToRetOn \in Nat /\ q.retCount \in Int
    BY <1>a DEF Query
  <2> QED
    BY <1>a, <2>1, StartOfSearch DEF findNth
<1>1. CASE resolve_icall
  BY <1>0, <1>1, MethodsType DEF resolve_icall
<1>2. CASE FindRet
  BY <1>0, <1>2 DEF FindRet
<1>3. CASE FindBl
  <2>1. CASE addr = entry /\ pc' = "null" /\ UNCHANGED <<addr, scanVars>>
    BY <1>0, <1>3, <2>1 DEF FindBl
  <2>2. CASE addr # entry /\ insn.id = "BL" /\ findNth(findNthB(insn.to))
    <3>1. Query(findNthB(insn.to))
      BY <1>3, CallType, BranchQuery DEF FindBl
    <3> HIDE DEF scanVars
    <3> QED
      BY <1>0, <1>3, <2>2, <3>1, <1>a DEF FindBl
  <2>3. CASE addr # entry /\ insn.id # "BL" /\ addr' = addr - 1 /\ UNCHANGED <<pc, scanVars>>
    BY <1>0, <1>3, <2>3 DEF FindBl
  <2> QED
    BY <1>3, <2>1, <2>2, <2>3 DEF FindBl
<1>4. CASE ClientSearch
  <2>1. PICK q \in Queries[code] : findNth(q)
    BY <1>4 DEF ClientSearch
  <2>2. Query(q)
    BY <1>0, SearchAssumption
  <2> QED
    BY <1>0, <1>4, <2>1, <2>2, <1>a DEF ClientSearch
<1>5. CASE SearchRet
  BY <1>0, <1>5, SizeType DEF SearchRet, Searching, Advance, Finish
<1>6. CASE SearchHit
  <2>1. nToRetOn >= 1
    BY <1>6 DEF SearchHit, Searching, IInv, ScanInv
  <2>2. CASE nToRetOn = 1
    BY <1>0, <1>6, <2>2 DEF SearchHit, Finish
  <2>3. CASE nToRetOn # 1
    BY <1>0, <1>6, <2>1, <2>3, SizeType DEF SearchHit, Searching, Advance
  <2> QED
    BY <2>2, <2>3
<1>7. CASE SearchOther
  BY <1>0, <1>7, SizeType DEF SearchOther, Searching, Advance
<1>8. CASE SearchNextRange
  <2>1. Query(query) /\ searchIdx \in DOMAIN query.addrs /\ searchIdx + 1 <= Len(query.addrs)
    BY <1>0, <1>8, StartOfSearch DEF SearchNextRange
  <2>2. /\ searchIdx + 1 \in DOMAIN query.addrs /\ searchIdx + 1 \in Nat
        /\ query.addrs[searchIdx + 1].addr \in Int
        /\ query.addrs[searchIdx + 1].rem \in 0..(SizeModulus - 1)
    BY <2>1, StartOfSearch
  <2>3. Query(query')
    BY <2>1, <1>8 DEF SearchNextRange
  <2> QED
    BY <1>0, <1>8, <2>2, <2>3 DEF SearchNextRange
<1>9. CASE SearchEnd
  BY <1>0, <1>9 DEF SearchEnd, Finish
<1>10. CASE SearchFault
  BY <1>0, <1>10 DEF SearchFault, Finish
<1>11. CASE SearchShort
  BY <1>0, <1>11, SizeType DEF SearchShort, Advance
<1>12. CASE UNCHANGED vars
  BY <1>0, <1>12
<1> QED
  BY <1>1, <1>2, <1>3, <1>4, <1>5, <1>6, <1>7, <1>8, <1>9, <1>10, <1>11, <1>12
     DEF Next, SearchNext

-----------------------------------------------------------------------------
(* findNth keeps its counters right.                                       *)

LEMMA Trichotomy ==
  ASSUME TypeOK, pc = "findNth", NEW p \in Places(query)
  PROVE  Earlier(p, here) \/ p = here \/ Earlier(here, p)
<1>1. code \in Codes /\ Query(query) /\ searchIdx \in Int /\ addr \in Int
  BY DEF TypeOK
<1>2. p = <<p[1], p[2]>> /\ p[1] \in Int /\ p[2] \in Int
  BY <1>1, PlaceType
<1> QED
  BY <1>1, <1>2 DEF here, Earlier

(* Nothing has been counted when a search starts.                          *)
LEMMA FirstPlace ==
  ASSUME code \in Codes, code' = code, NEW q, Query(q), Whole(q), findNth(q)
  PROVE  InRange' /\ Counted'
<1>1. query' = q /\ searchIdx' = 1 /\ addr' = q.addrs[1].addr /\ rem' = q.addrs[1].rem
      /\ nToRetOn' = q.nToRetOn /\ retCount' = q.retCount
  BY DEF findNth
<1>2. 1 \in DOMAIN q.addrs /\ q.addrs[1].addr \in Int /\ q.addrs[1].rem \in Nat
  BY StartOfSearch
<1>3. InRange'
  BY <1>1, <1>2 DEF InRange, Whole
<1>4. \A p \in Places(q) : ~Earlier(p, <<1, q.addrs[1].addr>>)
  BY <1>2, PlaceType, StartOfSearch DEF Earlier
<1>5. Places(query)' = Places(q)
  BY <1>1 DEF Places
<1>6. here' = <<1, q.addrs[1].addr>>
  BY <1>1 DEF here
<1>7. HitsBefore(query, here)' = {} /\ RetsBefore(query, here)' = {}
  BY <1>4, <1>5, <1>6 DEF HitsBefore, RetsBefore
<1>8. Cardinality({}) = 0
  BY FS_EmptySet
<1>9. (Cardinality(HitsBefore(query, here)) = 0 /\ Cardinality(RetsBefore(query, here)) = 0)'
  BY <1>7, <1>8
<1>10. q.nToRetOn \in Nat \ {0} /\ q.retCount \in Int
  BY DEF Query
<1>11. (\A p \in Places(query) : Earlier(p, here) => ~IsNth(query, p))'
  BY <1>4, <1>5, <1>6 DEF Earlier
<1> QED
  BY <1>1, <1>3, <1>9, <1>10, <1>11 DEF Counted

(* A step over an instruction that is not the answer.                      *)
LEMMA StepOver ==
  ASSUME IInv, Searching, Whole(query), Advance, code' = code,
         nToRetOn' = (IF IsHit(query, here) THEN nToRetOn - 1 ELSE nToRetOn),
         retCount' = (IF IsRet(here) THEN retCount - 1 ELSE retCount),
         nToRetOn' >= 1, IsRet(here) => retCount # 0,
         ~IsNth(query, here)
  PROVE  ScanInv' /\ FoundIsNth'
<1> DEFINE next == <<searchIdx, addr + 1>>
<1>1. TypeOK /\ InRange /\ Counted
  BY DEF IInv, ScanInv, Searching
<1>2. query' = query /\ searchIdx' = searchIdx /\ addr' = addr + 1 /\ rem' = rem - 4 /\ pc' = "findNth"
  BY <1>1, SizeType DEF Advance, Searching, TypeOK
<1>3. addr \in Int /\ rem \in Nat /\ rem >= 4 /\ addr \in DOMAIN code /\ nToRetOn \in Nat
      /\ retCount \in Int /\ code \in Codes /\ Query(query) /\ searchIdx \in DOMAIN query.addrs
  BY <1>1, SizeType DEF TypeOK, Searching
<1>4. query.addrs[searchIdx].addr \in Int /\ query.addrs[searchIdx].rem \in Nat
      /\ query.nToRetOn \in Nat /\ query.retCount \in Int
  BY <1>3, StartOfSearch DEF Query
<1>5. InRange'
  <2>1. /\ (rem - 4) % 4 = 0
        /\ query.addrs[searchIdx].rem - (rem - 4) = 4 * ((addr + 1) - query.addrs[searchIdx].addr)
        /\ query.addrs[searchIdx].addr <= addr + 1
        /\ \A a \in query.addrs[searchIdx].addr..addr : a \in DOMAIN code
    BY <1>1, <1>3, <1>4 DEF InRange
  <2>2. (addr + 1) - 1 = addr
    BY <1>3
  <2> QED
    BY <1>2, <1>3, <2>1, <2>2 DEF InRange
<1>6. here' = next
  BY <1>2 DEF here
<1>7. /\ Places(query)' = Places(query)
      /\ HitsBefore(query, here)' = HitsBefore(query, next)
      /\ RetsBefore(query, here)' = RetsBefore(query, next)
      /\ \A p \in Places(query) : IsNth(query, p)' <=> IsNth(query, p)
  BY <1>2, <1>6, SamePlaces
<1>8. /\ \A x \in Places(query) : Earlier(x, next) => Earlier(x, here) \/ x = here
      /\ Cardinality(HitsBefore(query, next)) =
           Cardinality(HitsBefore(query, here)) + (IF IsHit(query, here) THEN 1 ELSE 0)
      /\ Cardinality(RetsBefore(query, next)) =
           Cardinality(RetsBefore(query, here)) + (IF IsRet(here) THEN 1 ELSE 0)
  BY <1>1, OnePlaceOn
<1>9. Cardinality(HitsBefore(query, here))' = query.nToRetOn - nToRetOn'
  <2>1. CASE IsHit(query, here)
    BY <1>1, <1>3, <1>4, <1>7, <1>8, <2>1 DEF Counted
  <2>2. CASE ~IsHit(query, here)
    BY <1>1, <1>3, <1>4, <1>7, <1>8, <2>2 DEF Counted
  <2> QED
    BY <2>1, <2>2
<1>10. Cardinality(RetsBefore(query, here))' = query.retCount - retCount'
  <2>1. CASE IsRet(here)
    BY <1>1, <1>3, <1>4, <1>7, <1>8, <2>1 DEF Counted
  <2>2. CASE ~IsRet(here)
    BY <1>1, <1>3, <1>4, <1>7, <1>8, <2>2 DEF Counted
  <2> QED
    BY <2>1, <2>2
<1>11. (query.retCount >= 0 => retCount' >= 0) /\ (query.retCount < 0 => retCount' < 0)
  BY <1>1, <1>3, <1>4 DEF Counted
<1>12. \A p \in Places(query) : Earlier(p, next) => ~IsNth(query, p)
  BY <1>1, <1>8 DEF Counted
<1>13. (\A p \in Places(query) : Earlier(p, here) => ~IsNth(query, p))'
  BY <1>6, <1>7, <1>12 DEF Earlier
<1>14. Counted'
  BY <1>2, <1>9, <1>10, <1>11, <1>13 DEF Counted
<1> QED
  BY <1>2, <1>3, <1>5, <1>14 DEF ScanInv, FoundIsNth

(* A search that gives up when no place is left.                           *)
LEMMA GiveUp ==
  ASSUME Finish("null"), code' = code, \A p \in Places(query) : ~IsNth(query, p)
  PROVE  ScanInv' /\ FoundIsNth'
<1>1. pc' = "null" /\ query' = query
  BY DEF Finish, scanVars
<1>2. (\A p \in Places(query) : ~IsNth(query, p))'
  BY <1>1, SamePlaces
<1> QED
  BY <1>1, <1>2 DEF ScanInv, FoundIsNth

(* At the ret that ends the search, no place behind it can be the answer.  *)
LEMMA RetEnds ==
  ASSUME IInv, Searching, Whole(query), IsRet(here), retCount = 0, NEW p \in Places(query)
  PROVE  ~IsNth(query, p)
<1>1. TypeOK /\ InRange /\ Counted /\ code \in Codes /\ Query(query)
  BY DEF IInv, ScanInv, Searching, TypeOK
<1>2. here \in Places(query)
  BY <1>1, OnePlaceOn
<1>3. query.retCount >= 0 /\ query.retCount \in Int
      /\ Cardinality(RetsBefore(query, here)) = query.retCount
  BY <1>1 DEF Counted, Query
<1>4. CASE Earlier(p, here)
  BY <1>1, <1>4 DEF Counted
<1>5. CASE p = here
  BY <1>5 DEF IsNth
<1>6. CASE Earlier(here, p)
  <2>1. Cardinality(RetsBefore(query, p)) > query.retCount
    BY <1>1, <1>2, <1>3, <1>6, BehindCounts
  <2>2. Cardinality(RetsBefore(query, p)) \in Nat
    BY <1>1, FiniteBefore
  <2> QED
    BY <1>3, <2>1, <2>2 DEF IsNth
<1> QED
  BY <1>1, <1>4, <1>5, <1>6, Trichotomy DEF Searching

(* Nor behind the nth place that counts, which decides the search.         *)
LEMMA HitDecides ==
  ASSUME IInv, Searching, Whole(query), Counts, nToRetOn = 1
  PROVE  /\ here \in Places(query)
         /\ Match(query, insn) => IsNth(query, here)
         /\ ~Match(query, insn) => \A p \in Places(query) : ~IsNth(query, p)
<1>1. TypeOK /\ InRange /\ Counted /\ code \in Codes /\ Query(query)
  BY DEF IInv, ScanInv, Searching, TypeOK
<1>2. here \in Places(query)
  BY <1>1, OnePlaceOn
<1>3. query.retCount \in Int /\ query.nToRetOn \in Nat /\ retCount \in Int
  BY <1>1 DEF TypeOK, Query
<1>4. /\ Cardinality(HitsBefore(query, here)) = query.nToRetOn - 1
      /\ query.retCount >= 0 => Cardinality(RetsBefore(query, here)) <= query.retCount
  BY <1>1, <1>3 DEF Counted
<1>5. IsHit(query, here) /\ ~IsRet(here)
  BY HereIs DEF Counts
<1>6. Match(query, insn) => IsNth(query, here)
  BY <1>4, <1>5 DEF IsNth, here, At, insn
<1>7. ASSUME ~Match(query, insn), NEW p \in Places(query)
      PROVE  ~IsNth(query, p)
  <2>1. CASE Earlier(p, here)
    BY <1>1, <2>1 DEF Counted
  <2>2. CASE p = here
    BY <1>7, <2>2, HereIs
  <2>3. CASE Earlier(here, p)
    <3>1. Cardinality(HitsBefore(query, p)) > query.nToRetOn - 1
      BY <1>1, <1>2, <1>4, <1>5, <2>3, BehindCounts
    <3>2. Cardinality(HitsBefore(query, p)) \in Nat
      BY <1>1, FiniteBefore
    <3> QED
      BY <1>3, <3>1, <3>2 DEF IsNth
  <2> QED
    BY <1>1, <2>1, <2>2, <2>3, Trichotomy DEF Searching
<1> QED
  BY <1>2, <1>6, <1>7

(* Behind a range that is exhausted there is nothing up to the next one.    *)
LEMMA RangeDone ==
  ASSUME IInv, pc = "findNth", Whole(query), rem = 0, NEW p \in Places(query), p[1] <= searchIdx
  PROVE  Earlier(p, here) /\ ~IsNth(query, p)
<1>1. TypeOK /\ InRange /\ Counted /\ code \in Codes /\ Query(query) /\ searchIdx \in Int
      /\ addr \in Int /\ searchIdx \in DOMAIN query.addrs
  BY DEF IInv, ScanInv, TypeOK
<1>2. p[1] \in DOMAIN query.addrs /\ p[1] \in Int /\ p[2] \in Int
      /\ 4 * (p[2] - query.addrs[p[1]].addr) < query.addrs[p[1]].rem
  BY <1>1, PlaceType
<1>3. query.addrs[searchIdx].addr \in Int /\ query.addrs[searchIdx].rem \in Nat
  BY <1>1, StartOfSearch
<1>4. query.addrs[searchIdx].rem = 4 * (addr - query.addrs[searchIdx].addr)
  BY <1>1, <1>3 DEF InRange
<1>5. p[1] = searchIdx => p[2] < addr
  BY <1>1, <1>2, <1>3, <1>4
<1>6. Earlier(p, here)
  BY <1>1, <1>2, <1>5 DEF Earlier, here
<1> QED
  BY <1>1, <1>6 DEF Counted

LEMMA NextRange ==
  ASSUME IInv, SearchNextRange, Whole(query)
  PROVE  ScanInv' /\ FoundIsNth'
<1> DEFINE next == <<searchIdx + 1, query.addrs[searchIdx + 1].addr>>
<1>1. TypeOK /\ InRange /\ Counted /\ code \in Codes /\ Query(query) /\ searchIdx \in Int
  BY DEF IInv, ScanInv, TypeOK, SearchNextRange
<1>2. pc = "findNth" /\ rem = 0 /\ pc' = "findNth" /\ code' = code /\ query' = query
      /\ searchIdx' = searchIdx + 1
      /\ addr' = query.addrs[searchIdx + 1].addr /\ rem' = query.addrs[searchIdx + 1].rem
      /\ nToRetOn' = nToRetOn /\ retCount' = retCount
  BY DEF SearchNextRange
<1>3. /\ searchIdx + 1 \in DOMAIN query.addrs
      /\ query.addrs[searchIdx + 1].addr \in Int /\ query.addrs[searchIdx + 1].rem \in Nat
      /\ query.addrs[searchIdx + 1].rem % 4 = 0
  <2>1. searchIdx \in DOMAIN query.addrs /\ searchIdx < Len(query.addrs)
    BY <1>1, StartOfSearch DEF SearchNextRange, IInv, TypeOK
  <2>2. searchIdx + 1 \in DOMAIN query.addrs
    BY <1>1, <2>1, StartOfSearch
  <2> QED
    BY <1>1, <2>2, StartOfSearch DEF Whole
<1>4. InRange'
  <2>1. \A a \in query.addrs[searchIdx + 1].addr..(query.addrs[searchIdx + 1].addr - 1) : FALSE
    BY <1>3
  <2> QED
    BY <1>1, <1>2, <1>3, <2>1 DEF InRange
<1>5. here' = next
  BY <1>2 DEF here
<1>6. \A p \in Places(query) : Earlier(p, next) <=> p[1] <= searchIdx
  BY <1>1, <1>3, PlaceType DEF Earlier
<1>7. \A p \in Places(query) : Earlier(p, here) => p[1] <= searchIdx
  BY <1>1, PlaceType DEF Earlier, here
<1>8. \A p \in Places(query) : Earlier(p, next) <=> Earlier(p, here)
  BY <1>2, <1>6, <1>7, RangeDone
<1>9. HitsBefore(query, next) = HitsBefore(query, here)
      /\ RetsBefore(query, next) = RetsBefore(query, here)
  BY <1>8 DEF HitsBefore, RetsBefore
<1>10. /\ Places(query)' = Places(query)
       /\ HitsBefore(query, here)' = HitsBefore(query, here)
       /\ RetsBefore(query, here)' = RetsBefore(query, here)
       /\ \A p \in Places(query) : IsNth(query, p)' <=> IsNth(query, p)
  BY <1>2, <1>5, <1>9, SamePlaces
<1>11. (\A p \in Places(query) : Earlier(p, here) => ~IsNth(query, p))'
  <2>1. \A p \in Places(query) : Earlier(p, next) => ~IsNth(query, p)
    BY <1>1, <1>8 DEF Counted
  <2> QED
    BY <1>5, <1>10, <2>1 DEF Earlier
<1>12. Counted'
  BY <1>1, <1>2, <1>10, <1>11 DEF Counted
<1>13. nToRetOn >= 1
  BY <1>2 DEF IInv, ScanInv
<1> QED
  BY <1>1, <1>2, <1>3, <1>4, <1>12, <1>13 DEF ScanInv, FoundIsNth

(* Of a search in other ranges nothing is said but that it stays in one.    *)
LEMMA NotWhole ==
  ASSUME IInv, SearchNext, ~Whole(query)
  PROVE  ScanInv' /\ FoundIsNth'
<1>1. TypeOK /\ pc = "findNth" /\ nToRetOn >= 1 /\ nToRetOn \in Nat
      /\ Query(query) /\ searchIdx \in DOMAIN query.addrs
  BY DEF IInv, ScanInv, TypeOK, SearchNext, SearchRet, SearchHit, SearchOther, SearchShort,
     SearchNextRange, SearchEnd, SearchFault, Searching
<1>2. query' = query /\ pc' \in {"findNth", "found", "null", "fault"}
  BY <1>1 DEF SearchNext, SearchRet, SearchHit, SearchOther, SearchShort, SearchNextRange,
     SearchEnd, SearchFault, Finish, Advance, scanVars
<1>3. ~Whole(query')
  BY <1>2
<1>4. nToRetOn' >= 1
  BY <1>1 DEF SearchNext, SearchRet, SearchHit, SearchOther, SearchShort, SearchNextRange,
     SearchEnd, SearchFault, Finish, Advance, scanVars
<1>5. searchIdx' \in DOMAIN query.addrs
  <2>1. CASE SearchNextRange
    <3>1. searchIdx + 1 \in DOMAIN query.addrs
      BY <1>1, <2>1, StartOfSearch DEF SearchNextRange
    <3> QED
      BY <2>1, <3>1 DEF SearchNextRange
  <2>2. CASE ~SearchNextRange
    BY <1>1, <2>2 DEF SearchNext, SearchRet, SearchHit, SearchOther, SearchShort,
       SearchEnd, SearchFault, Finish, Advance, scanVars
  <2> QED
    BY <2>1, <2>2
<1> QED
  BY <1>1, <1>2, <1>3, <1>4, <1>5 DEF ScanInv, FoundIsNth, Whole

LEMMA NextScan == IInv /\ [Next]_vars => ScanInv' /\ FoundIsNth'
<1> SUFFICES ASSUME IInv, [Next]_vars PROVE ScanInv' /\ FoundIsNth'
  OBVIOUS
<1>0. TypeOK /\ ScanInv /\ FoundIsNth /\ code \in Codes
  BY DEF IInv, TypeOK
<1>a. ASSUME NEW q, Query(q), q.conv # "none", findNth(q), code' = code
      PROVE  ScanInv' /\ FoundIsNth'
  <2>1. Whole(q) => InRange' /\ Counted'
    BY <1>0, <1>a, FirstPlace
  <2>2. 1 \in DOMAIN q.addrs /\ q.nToRetOn >= 1
    BY <1>a, StartOfSearch DEF Query
  <2>3. query' = q /\ searchIdx' = 1 /\ nToRetOn' = q.nToRetOn /\ pc' = "findNth"
    BY <1>a DEF findNth
  <2> QED
    BY <1>a, <2>1, <2>2, <2>3 DEF ScanInv, FoundIsNth, Whole
<1>c. CASE SearchNext /\ ~Whole(query)
  BY <1>c, NotWhole
<1>b. ASSUME pc \in {"idle", "find_ret", "find_bl"}, query' = query,
             pc' \in {"idle", "find_ret", "find_bl", "null", "fault"}
      PROVE  ScanInv' /\ FoundIsNth'
  BY <1>0, <1>b DEF ScanInv, FoundIsNth
<1>1. CASE resolve_icall
  BY <1>1, <1>b DEF resolve_icall, scanVars
<1>2. CASE FindRet
  BY <1>2, <1>b DEF FindRet, methodVars, scanVars
<1>3. CASE FindBl
  <2>1. CASE findNth(findNthB(insn.to))
    BY <1>3, <2>1, <1>a, CallType, BranchQuery DEF FindBl
  <2>2. CASE ~findNth(findNthB(insn.to))
    BY <1>3, <2>2, <1>b DEF FindBl, scanVars
  <2> QED
    BY <2>1, <2>2
<1>4. CASE ClientSearch
  <2>1. PICK q \in Queries[code] : findNth(q)
    BY <1>4 DEF ClientSearch
  <2>2. Query(q) /\ q.conv # "none"
    BY <1>0, SearchAssumption DEF Query
  <2> QED
    BY <1>4, <2>1, <2>2, <1>a DEF ClientSearch
<1>5. CASE SearchRet /\ Whole(query)
  <2>1. Searching /\ code' = code /\ IsRet(here) /\ ~IsHit(query, here) /\ ~IsNth(query, here)
    BY <1>5, HereIs DEF SearchRet, IsHit, IsNth
  <2>2. CASE retCount = 0
    BY <1>5, <2>1, <2>2, RetEnds, GiveUp DEF SearchRet
  <2>3. CASE retCount # 0
    <3>1. nToRetOn >= 1
      BY <2>1 DEF IInv, ScanInv, Searching
    <3> QED
      BY <1>5, <2>1, <2>3, <3>1, StepOver DEF SearchRet
  <2> QED
    BY <2>2, <2>3
<1>6. CASE SearchHit /\ Whole(query)
  <2>1. Searching /\ code' = code /\ Counts /\ IsHit(query, here) /\ ~IsRet(here)
    BY <1>6, HereIs DEF SearchHit, IsHit
  <2>2. CASE nToRetOn = 1 /\ ~Match(query, insn)
    BY <1>6, <2>1, <2>2, HitDecides, GiveUp DEF SearchHit
  <2>3. CASE nToRetOn = 1 /\ Match(query, insn)
    <3>1. pc' = "found" /\ addr' = addr /\ query' = query /\ searchIdx' = searchIdx
          /\ rem' = rem /\ nToRetOn' = nToRetOn /\ retCount' = retCount
      BY <1>6, <2>3 DEF SearchHit, Finish, scanVars
    <3>2. here \in Places(query) /\ IsNth(query, here) /\ here' = here
      BY <1>6, <2>1, <2>3, <3>1, HitDecides DEF here
    <3>3. InRange /\ Counted /\ Query(query) /\ searchIdx \in DOMAIN query.addrs /\ nToRetOn >= 1
      BY <1>6, <2>1 DEF IInv, ScanInv, Searching
    <3>4. InRange'
      BY <2>1, <3>1, <3>3 DEF InRange
    <3>5. /\ Places(query)' = Places(query)
          /\ HitsBefore(query, here)' = HitsBefore(query, here)
          /\ RetsBefore(query, here)' = RetsBefore(query, here)
          /\ \A p \in Places(query) : IsNth(query, p)' <=> IsNth(query, p)
      BY <2>1, <3>1, <3>2, SamePlaces
    <3>6. (\A p \in Places(query) : Earlier(p, here) => ~IsNth(query, p))'
      BY <3>2, <3>3, <3>5 DEF Counted, Earlier
    <3>7. Counted'
      BY <3>1, <3>3, <3>5, <3>6 DEF Counted
    <3>8. IsNth(query, here)'
      <4>1. (~IsRet(here) /\ Match(query, At(here)))'
        BY <2>1, <3>1, <3>2 DEF IsNth, IsRet, At, here, Match, bConv, blConv, pcRelConv,
           regMatchConv, findIns, matchBCond
      <4>2. (/\ Cardinality(HitsBefore(query, here)) = query.nToRetOn - 1
             /\ query.retCount >= 0 => Cardinality(RetsBefore(query, here)) <= query.retCount)'
        BY <3>1, <3>2, <3>5 DEF IsNth
      <4> QED
        BY <4>1, <4>2 DEF IsNth
    <3> QED
      BY <3>1, <3>2, <3>3, <3>4, <3>5, <3>7, <3>8 DEF ScanInv, FoundIsNth, here
  <2>4. CASE nToRetOn # 1
    <3>1. InRange /\ Counted /\ TypeOK /\ nToRetOn >= 1
      BY <1>6, <2>1 DEF IInv, ScanInv, Searching
    <3>2. nToRetOn \in Nat /\ nToRetOn - 1 >= 1 /\ query.nToRetOn \in Nat
      BY <2>1, <2>4, <3>1 DEF TypeOK, Searching, Query
    <3>3. ~IsNth(query, here)
      BY <2>1, <2>4, <3>1, <3>2, HereIs DEF Counted
    <3>4. Advance /\ nToRetOn' = nToRetOn - 1 /\ retCount' = retCount
      BY <1>6, <2>4 DEF SearchHit
    <3> QED
      BY <1>6, <2>1, <3>2, <3>3, <3>4, StepOver
  <2> QED
    BY <2>2, <2>3, <2>4
<1>7. CASE SearchOther /\ Whole(query)
  <2>1. Searching /\ code' = code /\ ~IsHit(query, here) /\ ~IsRet(here)
    BY <1>7, HereIs DEF SearchOther
  <2>2. ~IsNth(query, here)
    BY <1>7, <2>1, HereIs DEF SearchOther, Counts
  <2>3. nToRetOn >= 1
    BY <2>1 DEF IInv, ScanInv, Searching
  <2> QED
    BY <1>7, <2>1, <2>2, <2>3, StepOver DEF SearchOther
<1>8. CASE SearchNextRange /\ Whole(query)
  BY <1>8, NextRange
<1>9. CASE SearchEnd /\ Whole(query)
  <2>1. \A p \in Places(query) : p[1] <= searchIdx
    <3>1. Query(query) /\ searchIdx = Len(query.addrs)
      BY <1>0, <1>9 DEF SearchEnd, TypeOK
    <3>2. Len(query.addrs) \in Nat /\ DOMAIN query.addrs = 1..Len(query.addrs)
      BY <3>1, StartOfSearch
    <3> QED
      BY <1>0, <3>1, <3>2, PlaceType
  <2>2. \A p \in Places(query) : ~IsNth(query, p)
    BY <1>9, <2>1, RangeDone DEF SearchEnd
  <2> QED
    BY <1>9, <2>2, GiveUp DEF SearchEnd
<1>10. CASE SearchFault
  BY <1>10 DEF SearchFault, Finish, ScanInv, FoundIsNth
<1>11. CASE SearchShort /\ Whole(query)
  <2>1. InRange /\ rem \in 1..3
    BY <1>11 DEF SearchShort, IInv, ScanInv
  <2> QED
    BY <2>1 DEF InRange
<1>12. CASE UNCHANGED vars
  <2>1. code' = code /\ query' = query /\ pc' = pc /\ addr' = addr /\ searchIdx' = searchIdx
        /\ rem' = rem /\ nToRetOn' = nToRetOn /\ retCount' = retCount
    BY <1>12 DEF vars, scanVars
  <2>2. InRange' <=> InRange
    BY <2>1 DEF InRange
  <2>3. Counted' <=> Counted
    BY <2>1 DEF Counted, HitsBefore, RetsBefore, IsNth, IsHit, IsRet, At, Places, here
  <2>4. FoundIsNth' <=> FoundIsNth
    BY <2>1 DEF FoundIsNth, Whole, HitsBefore, RetsBefore, IsNth, IsHit, IsRet, At, Places
  <2>5. (here \in Places(query))' <=> here \in Places(query)
    BY <2>1 DEF Places, here
  <2> QED
    BY <1>0, <2>1, <2>2, <2>3, <2>4, <2>5 DEF ScanInv, Whole
<1> QED
  BY <1>c, <1>1, <1>2, <1>3, <1>4, <1>5, <1>6, <1>7, <1>8, <1>9, <1>10, <1>11, <1>12
     DEF Next, SearchNext

-----------------------------------------------------------------------------
(* find_unity_hook_loc.                                                    *)

(* A method has one end, and that has one last call.                       *)
LEMMA OneCall ==
  ASSUME code \in Codes, NEW e \in Int, NEW r1 \in DOMAIN code, NEW c1 \in DOMAIN code,
         NEW r2 \in DOMAIN code, NEW c2 \in DOMAIN code,
         IsEnd(e, r1), IsLastCall(e, r1, c1), IsEnd(e, r2), IsLastCall(e, r2, c2)
  PROVE  c1 = c2
<1>1. r1 \in Int /\ c1 \in Int /\ r2 \in Int /\ c2 \in Int
  BY CodeFacts
<1>2. r1 = r2
  <2>1. ~(r1 < r2) /\ ~(r2 < r1)
    BY <1>1 DEF IsEnd
  <2> QED
    BY <1>1, <2>1
<1>3. ~(c1 < c2) /\ ~(c2 < c1)
  BY <1>1, <1>2 DEF IsLastCall
<1> QED
  BY <1>1, <1>3

(* When the backward loop arrives at the first instruction, that is the     *)
(* only one that may be a call.                                            *)
LEMMA OnlyEntryCall ==
  ASSUME code \in Codes, NEW e \in Int, NEW r \in DOMAIN code, NEW r2 \in DOMAIN code,
         NEW c2 \in DOMAIN code, IsEnd(e, r), \A a \in (e + 1)..r : code[a].id # "BL",
         IsEnd(e, r2), IsLastCall(e, r2, c2)
  PROVE  c2 = e
<1>1. r \in Int /\ r2 \in Int /\ c2 \in Int
  BY CodeFacts
<1>2. ~(r < r2) /\ ~(r2 < r)
  BY <1>1 DEF IsEnd
<1> QED
  BY <1>1, <1>2 DEF IsLastCall

LEMMA NextTrace == IInv /\ [Next]_vars => TraceInv'
<1> SUFFICES ASSUME IInv, [Next]_vars PROVE TraceInv'
  OBVIOUS
<1>0. TypeOK /\ ScanInv /\ TraceInv
  BY DEF IInv
<1>1. /\ code \in Codes /\ icalls \in Icalls /\ entry \in Int /\ addr \in Int
      /\ MethodLength \in Nat /\ DOMAIN code \subseteq Int
      /\ Methods \subseteq Int /\ \A e1, e2 \in Methods : e1 = e2
      /\ pc \in {"idle", "find_ret", "find_bl", "findNth"} \union Ended
  BY <1>0, MethodsType, CodeFacts, SearchAssumption DEF TypeOK
<1>2. CASE resolve_icall
  <2>1. CASE \E method \in Methods : entry' = method /\ addr' = method /\ pc' = "find_ret"
    <3>1. PICK method \in Methods : entry' = method /\ addr' = method /\ pc' = "find_ret"
      BY <2>1
    <3>2. Methods' = Methods /\ caller' = "find_unity_hook_loc"
      BY <1>2 DEF resolve_icall, Methods
    <3> QED
      BY <1>1, <3>1, <3>2 DEF TraceInv
  <2>2. CASE Methods = {} /\ pc' = "null"
    <3>1. Methods' = {} /\ query' = query /\ query.conv = "none"
      BY <1>0, <1>2, <2>2 DEF resolve_icall, Methods, ScanInv, scanVars
    <3> QED
      BY <2>2, <3>1 DEF TraceInv
  <2> QED
    BY <1>2, <2>1, <2>2 DEF resolve_icall
<1>3. CASE FindRet
  <2>0. /\ code' = code /\ icalls' = icalls /\ caller' = caller /\ entry' = entry /\ query' = query
        /\ Methods' = Methods /\ pc = "find_ret" /\ caller = "find_unity_hook_loc"
        /\ query.conv = "none"
        /\ entry \in Methods /\ entry <= addr /\ addr <= entry + MethodLength
        /\ \A a \in entry..(addr - 1) : a \in DOMAIN code /\ ~RET_OP(code[a])
    BY <1>0, <1>3 DEF FindRet, methodVars, scanVars, Methods, TraceInv, ScanInv
  <2>1. CASE addr = entry + MethodLength /\ pc' = "null"
    <3>1. ASSUME NEW e \in Methods, NEW r \in DOMAIN code, IsEnd(e, r)
          PROVE  FALSE
      BY <1>1, <2>0, <2>1, <3>1 DEF IsEnd
    <3>2. (\A e \in Methods : \A r, c \in DOMAIN code :
              IsEnd(e, r) /\ IsLastCall(e, r, c) => c = e)'
      BY <2>0, <3>1 DEF IsEnd
    <3> QED
      BY <2>0, <2>1, <3>2 DEF TraceInv
  <2>2. CASE pc' = "fault"
    BY <2>2 DEF TraceInv
  <2>3. CASE /\ addr # entry + MethodLength /\ addr \in DOMAIN code /\ RET_OP(insn)
             /\ pc' = "find_bl" /\ addr' = addr
    <3>1. IsEnd(entry, addr)
      BY <1>1, <2>0, <2>3 DEF IsEnd, insn
    <3>2. IsEnd(entry, addr)' /\ addr' \in DOMAIN code'
      BY <2>0, <2>3, <3>1 DEF IsEnd
    <3>3. \A a \in (addr + 1)..addr : FALSE
      BY <1>1
    <3> QED
      BY <1>1, <2>0, <2>3, <3>2, <3>3 DEF TraceInv
  <2>4. CASE /\ addr # entry + MethodLength /\ addr \in DOMAIN code /\ ~RET_OP(insn)
             /\ pc' = pc /\ addr' = addr + 1
    <3>1. \A a \in entry..addr : a \in DOMAIN code /\ ~RET_OP(code[a])
      BY <1>1, <2>0, <2>4 DEF insn
    <3>2. entry <= addr + 1 /\ addr + 1 <= entry + MethodLength /\ (addr + 1) - 1 = addr
      BY <1>1, <2>0, <2>4
    <3> QED
      BY <2>0, <2>4, <3>1, <3>2 DEF TraceInv
  <2> QED
    BY <1>3, <2>1, <2>2, <2>3, <2>4 DEF FindRet
<1>4. CASE FindBl
  <2>0. /\ code' = code /\ icalls' = icalls /\ caller' = caller /\ entry' = entry
        /\ Methods' = Methods /\ pc = "find_bl" /\ caller = "find_unity_hook_loc"
        /\ query.conv = "none" /\ entry \in Methods
    BY <1>0, <1>4 DEF FindBl, Methods, TraceInv, ScanInv
  <2>1. PICK r \in DOMAIN code : /\ IsEnd(entry, r) /\ entry <= addr /\ addr <= r
                                 /\ \A a \in (addr + 1)..r : code[a].id # "BL"
    BY <1>0, <2>0 DEF TraceInv
  <2>2. r \in Int
    BY <1>1
  <2>3. IsEnd(entry, r)'
    BY <2>0, <2>1 DEF IsEnd
  <2>4. CASE addr = entry /\ pc' = "null" /\ query' = query
    <3>1. ASSUME NEW e \in Methods, NEW r2 \in DOMAIN code, NEW c2 \in DOMAIN code,
                 IsEnd(e, r2), IsLastCall(e, r2, c2)
          PROVE  c2 = e
      BY <1>1, <2>0, <2>1, <2>4, <3>1, OnlyEntryCall
    <3>2. (\A e \in Methods : \A r2, c2 \in DOMAIN code :
              IsEnd(e, r2) /\ IsLastCall(e, r2, c2) => c2 = e)'
      BY <2>0, <3>1 DEF IsEnd, IsLastCall
    <3> QED
      BY <2>0, <2>4, <3>2 DEF TraceInv
  <2>5. CASE addr # entry /\ insn.id = "BL" /\ findNth(findNthB(insn.to))
    <3>1. PICK c \in DOMAIN code : c = addr /\ code[c].id = "BL"
      BY <2>5, <1>4, CallType DEF FindBl, insn
    <3>2. IsLastCall(entry, r, c)
      BY <1>1, <2>1, <2>2, <2>5, <3>1 DEF IsLastCall
    <3>3. IsLastCall(entry, r, c)'
      BY <2>0, <3>2 DEF IsLastCall
    <3>4. query' = findNthB(code[c].to) /\ pc' = "findNth"
      BY <2>5, <3>1 DEF findNth, insn
    <3>5. findNthB(code[c].to)' = findNthB(code[c].to)
      BY <2>0 DEF findNthB, OneRange
    <3>6. Called(r, c)'
      BY <2>3, <3>3, <3>4, <3>5 DEF Called
    <3> QED
      BY <2>0, <2>1, <3>1, <3>4, <3>6 DEF TraceInv
  <2>6. CASE addr # entry /\ insn.id # "BL" /\ addr' = addr - 1 /\ pc' = pc
    <3>1. \A a \in addr..r : code[a].id # "BL"
      BY <1>1, <2>1, <2>2, <2>6 DEF insn
    <3>2. (addr - 1) + 1 = addr /\ entry <= addr - 1 /\ addr - 1 <= r
      BY <1>1, <2>1, <2>2, <2>6
    <3> QED
      BY <2>0, <2>3, <2>6, <3>1, <3>2 DEF TraceInv
  <2> QED
    BY <1>4, <2>4, <2>5, <2>6 DEF FindBl, scanVars
<1>5. CASE ClientSearch
  BY <1>5 DEF ClientSearch, TraceInv, findNth
<1>6. CASE SearchNext
  <2>1. /\ code' = code /\ icalls' = icalls /\ caller' = caller /\ entry' = entry /\ query' = query
        /\ Methods' = Methods /\ pc = "findNth" /\ pc' \in {"findNth", "found", "null", "fault"}
    BY <1>6 DEF SearchNext, SearchRet, SearchHit, SearchOther, SearchShort, SearchNextRange,
       SearchEnd, SearchFault, Finish, Advance, Searching, scanVars, Methods
  <2>2. caller = "find_unity_hook_loc" =>
          (entry \in Methods /\ \E r, c \in DOMAIN code : Called(r, c))'
    BY <1>0, <2>1 DEF TraceInv, Called, IsEnd, IsLastCall
  <2> QED
    BY <2>1, <2>2 DEF TraceInv
<1>7. CASE UNCHANGED vars
  <2>1. /\ code' = code /\ icalls' = icalls /\ caller' = caller /\ entry' = entry /\ query' = query
        /\ Methods' = Methods /\ pc' = pc /\ addr' = addr
    BY <1>7 DEF vars, scanVars, Methods
  <2> QED
    BY <1>0, <2>1 DEF TraceInv, Called, IsEnd, IsLastCall
<1> QED
  BY <1>2, <1>3, <1>4, <1>5, <1>6, <1>7 DEF Next

(* The places of findNthB(t) are those of one range.                       *)
LEMMA BranchPlaces ==
  ASSUME code \in Codes, NEW t \in Int
  PROVE  LET q == findNthB(t) IN
         /\ \A p : p \in Places(q) <=>
              /\ p \in {1} \X DOMAIN code /\ t <= p[2] /\ 4 * (p[2] - t) < SearchBytes
         /\ \A p : IsHit(q, p) <=> At(p).id = "B"
         /\ \A p : IsNth(q, p) <=> At(p).id = "B" /\ Cardinality(HitsBefore(q, p)) = 0
<1> DEFINE q == findNthB(t)
<1>1. DOMAIN q.addrs = {1} /\ q.addrs[1].addr = t /\ q.addrs[1].rem = SearchBytes
  BY DEF findNthB, OneRange
<1>2. \A p : p \in Places(q) <=>
        p \in {1} \X DOMAIN code /\ t <= p[2] /\ 4 * (p[2] - t) < SearchBytes
  BY <1>1 DEF Places
<1>3. q.conv = "bConv" /\ q.skip = {} /\ q.nToRetOn = 1 /\ q.retCount = -1
  BY DEF findNthB
<1>4. \A p : Match(q, At(p)) <=> At(p).id = "B"
  BY <1>3 DEF Match, bConv
<1>5. \A p : ~insnMatch(q, At(p))
  BY <1>3 DEF insnMatch
<1>6. \A p : IsHit(q, p) <=> At(p).id = "B"
  BY <1>4, <1>5 DEF IsHit, IsRet
<1>7. \A p : IsNth(q, p) <=> At(p).id = "B" /\ Cardinality(HitsBefore(q, p)) = 0
  BY <1>3, <1>4 DEF IsNth, IsRet
<1> QED
  BY <1>2, <1>6, <1>7

(* No hit before a place is no branch before it.                           *)
LEMMA FirstHit ==
  ASSUME code \in Codes, NEW t \in Int, NEW b \in DOMAIN code, t <= b, 4 * (b - t) < SearchBytes
  PROVE  Cardinality(HitsBefore(findNthB(t), <<1, b>>)) = 0 <=>
           \A a \in t..(b - 1) : a \in DOMAIN code => code[a].id # "B"
<1> DEFINE q == findNthB(t)
<1>1. b \in Int /\ DOMAIN code \subseteq Int /\ SearchBytes \in Nat
  BY CodeFacts, SearchAssumption
<1>2. IsFiniteSet(HitsBefore(q, <<1, b>>))
  BY BranchQuery, FiniteBefore
<1>3. Cardinality(HitsBefore(q, <<1, b>>)) = 0 <=> HitsBefore(q, <<1, b>>) = {}
  BY <1>2, FS_EmptySet
<1>4. ASSUME NEW a \in t..(b - 1), a \in DOMAIN code, code[a].id = "B"
      PROVE  <<1, a>> \in HitsBefore(q, <<1, b>>)
  <2>1. <<1, a>> \in Places(q)
    BY <1>1, <1>4, BranchPlaces
  <2>2. IsHit(q, <<1, a>>)
    BY <1>4, BranchPlaces DEF At
  <2>3. Earlier(<<1, a>>, <<1, b>>)
    BY <1>1, <1>4 DEF Earlier
  <2> QED
    BY <2>1, <2>2, <2>3 DEF HitsBefore
<1>5. ASSUME NEW p \in HitsBefore(q, <<1, b>>)
      PROVE  p[2] \in t..(b - 1) /\ p[2] \in DOMAIN code /\ code[p[2]].id = "B"
  <2>1. p \in Places(q) /\ Earlier(p, <<1, b>>) /\ IsHit(q, p)
    BY <1>5 DEF HitsBefore
  <2>2. p \in {1} \X DOMAIN code /\ t <= p[2] /\ At(p).id = "B"
    BY <2>1, BranchPlaces
  <2> QED
    BY <1>1, <2>1, <2>2 DEF Earlier, At
<1> QED
  BY <1>3, <1>4, <1>5

LEMMA TraceFollowed == IInv => LocationIsTrace
<1> SUFFICES ASSUME IInv, caller = "find_unity_hook_loc", pc \in {"found", "null"}
             PROVE  /\ pc = "found" =>
                         \E e \in Methods : \E c, b \in DOMAIN code :
                           Trace(e, c, b) /\ code[b].to = answer
                    /\ pc = "null" =>
                         \A e \in Methods : \A c, b \in DOMAIN code : Trace(e, c, b) => c = e
  BY DEF LocationIsTrace
<1>1. code \in Codes /\ icalls \in Icalls /\ Methods \subseteq Int
      /\ (\A e1, e2 \in Methods : e1 = e2)
      /\ TraceInv /\ ScanInv /\ FoundIsNth /\ addr \in Int
  BY MethodsType DEF IInv, TypeOK
<1>2. CASE pc = "found"
  <2>1. PICK r \in DOMAIN code, c \in DOMAIN code : entry \in Methods /\ Called(r, c)
    BY <1>1, <1>2 DEF TraceInv
  <2> DEFINE t == code[c].to
  <2>2. t \in Int /\ query = findNthB(t)
    BY <1>1, <2>1, CodeFacts DEF Called
  <2>a. query.conv # "none" /\ Whole(query)
    BY <2>2, BranchQuery
  <2>3. here \in Places(query) /\ IsNth(query, here)
    BY <1>1, <1>2, <2>a DEF ScanInv, FoundIsNth, here
  <2> HIDE DEF t
  <2>4. searchIdx = 1 /\ addr \in DOMAIN code /\ t <= addr /\ 4 * (addr - t) < SearchBytes
    BY <1>1, <2>2, <2>3, BranchPlaces DEF here
  <2>5. code[addr].id = "B" /\ Cardinality(HitsBefore(findNthB(t), <<1, addr>>)) = 0
    BY <1>1, <2>2, <2>3, <2>4, BranchPlaces DEF here, At
  <2>6. \A a \in t..(addr - 1) : a \in DOMAIN code => code[a].id # "B"
    BY <1>1, <2>2, <2>4, <2>5, FirstHit
  <2>7. \A a \in t..(addr - 1) : a \in DOMAIN code
    <3>1. query.addrs[1].addr = t
      BY <2>2 DEF findNthB, OneRange
    <3> QED
      BY <1>1, <1>2, <2>a, <2>4, <3>1 DEF ScanInv, InRange
  <2>8. IsFirstBranch(t, addr)
    BY <2>4, <2>5, <2>6, <2>7 DEF IsFirstBranch
  <2>9. Trace(entry, c, addr)
    BY <2>1, <2>8 DEF Trace, Called, t
  <2> QED
    BY <1>2, <2>1, <2>4, <2>9 DEF answer
<1>3. CASE pc = "null"
  <2> SUFFICES ASSUME NEW e \in Methods, NEW c \in DOMAIN code, NEW b \in DOMAIN code,
                      Trace(e, c, b), c # e
               PROVE  FALSE
    BY <1>3
  <2>1. PICK r \in DOMAIN code :
          IsEnd(e, r) /\ IsLastCall(e, r, c) /\ IsFirstBranch(code[c].to, b)
    BY DEF Trace
  <2>2. PICK r2 \in DOMAIN code, c2 \in DOMAIN code : entry \in Methods /\ Called(r2, c2)
    BY <1>1, <1>3, <2>1 DEF TraceInv
  <2>3. e = entry /\ c = c2 /\ e \in Int
    BY <1>1, <2>1, <2>2, OneCall DEF Called
  <2> DEFINE t == code[c].to
  <2>4. t \in Int /\ query = findNthB(t) /\ query.conv # "none" /\ Whole(query)
    BY <1>1, <2>2, <2>3, CodeFacts, BranchQuery DEF Called
  <2>5. \A p \in Places(query) : ~IsNth(query, p)
    BY <1>1, <1>3, <2>4 DEF FoundIsNth
  <2>6. IsFirstBranch(t, b)
    BY <2>1
  <2> HIDE DEF t
  <2>7. /\ code[b].id = "B" /\ t <= b /\ 4 * (b - t) < SearchBytes
        /\ \A a \in t..(b - 1) : a \in DOMAIN code => code[a].id # "B"
    BY <2>6 DEF IsFirstBranch
  <2>8. <<1, b>> \in Places(query)
    BY <1>1, <2>4, <2>7, BranchPlaces
  <2>9. Cardinality(HitsBefore(query, <<1, b>>)) = 0
    BY <1>1, <2>4, <2>7, FirstHit
  <2>10. IsNth(query, <<1, b>>)
    BY <1>1, <2>4, <2>7, <2>9, BranchPlaces DEF At
  <2> QED
    BY <2>5, <2>8, <2>10
<1> QED
  BY <1>2, <1>3

-----------------------------------------------------------------------------
LEMMA Inductive == Spec => []IInv
<1>1. Init => IInv
  BY InitIInv
<1>2. IInv /\ [Next]_vars => IInv'
  BY NextTypeOK, NextScan, NextTrace DEF IInv
<1> QED
  BY <1>1, <1>2, PTL DEF Spec

(* The variables keep their types: a search that runs is in one of its      *)
(* ranges, and what is left of a range is never negative.                  *)
THEOREM SearchTyping == Spec => []TypeOK
<1>1. IInv => TypeOK
  BY DEF IInv
<1> QED
  BY <1>1, Inductive, PTL

(* findNth finds the nth match if there is one, in any memory, over any     *)
(* list of ranges and for any of the conversions, and nothing else.        *)
THEOREM NthFound == Spec => []FoundIsNth
<1>1. IInv => FoundIsNth
  BY DEF IInv
<1> QED
  BY <1>1, Inductive, PTL

(* find_unity_hook_loc answers with the place that the trace leads to, and  *)
(* with null only when it leads nowhere, or when the only call of the      *)
(* method is its first instruction.                                        *)
THEOREM LocationFollowsTrace == Spec => []LocationIsTrace
BY TraceFollowed, Inductive, PTL
=============================================================================
