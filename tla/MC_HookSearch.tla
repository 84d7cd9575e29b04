--------------------------- MODULE MC_HookSearch ---------------------------
(* Memories and searches for HookSearch; nothing is mapped behind the      *)
(* instructions given.                                                     *)
EXTENDS HookSearch, TLC

I(id, arg, to) == [id |-> id, arg |-> arg, to |-> to]

Other == I("OTHER", "none", 0)
Ret == I("RET", "x30", 0)
RetX1 == I("RET", "x1", 0)
Invalid == I("INVALID", "none", 0)
Bl(to) == I("BL", "none", to)

(* At 1..5 a method that il2cpp may name, with several calls and the first   *)
(* of its rets in any place; at 6..8 a function that it may call, at its    *)
(* beginning or behind that.                                               *)
Method ==
  {m \in [1..5 -> {Other, Ret, RetX1, Bl(6), Bl(7)}] :
     m[1] \in {Other, Bl(6)} /\ m[3] # RetX1 /\ m[4] # RetX1 /\ m[5] \in {Ret, Bl(7)}}
Unity == {m \o c : m \in Method, c \in [1..3 -> {Invalid, Ret, I("B", "none", 1), I("B", "eq", 6)}]}

(* Four instructions, each of which some search counts.                    *)
Mixed == [1..4 -> {Ret, Invalid, Bl(3), I("BLR", "x1", 0), I("B", "eq", 2)}]
Data == [1..3 -> {RetX1, I("ADRP", "x0", 1), I("ADD", "x1", 0), I("LDR", "x2", 0), I("TBZ", "x1", 0)}]

MCCodes == Unity \union Mixed \union Data

MCIcalls ==
  {[x \in {} |-> 0], "DestroyImmediate_Injected" :> 1,
   "DestroyImmediate" :> 2 @@ "DestroyImmediate_Injected" :> 1}

Search(conv, arg, skip, n, rets, addrs) ==
  [conv |-> conv, arg |-> arg, skip |-> skip, nToRetOn |-> n, retCount |-> rets, addrs |-> addrs]

(* Two ranges of two instructions, which may overlap or follow on each     *)
(* other; the memory ends before 5.                                        *)
TwoRanges == {OneRange(1, 8) \o OneRange(a, 8) : a \in {2, 3}}

Bls ==
  {Search("blConv", "none", skip, n, rets, addrs) :
     skip \in {{}, {"BLR"}}, n \in {1, 2}, rets \in {-1, 0, 1}, addrs \in TwoRanges}
  \union {Search("matchBCond", "eq", {}, 1, 1, OneRange(1, bytes)) : bytes \in {6, 16}}
Others ==
  {Search("findIns", "TBZ", {}, 2, 1, OneRange(1, 12)),
   Search("pcRelConv", "none", {}, 1, -1, OneRange(1, 12)),
   Search("regMatchConv", "x1", {}, 1, -1, OneRange(1, 16))}

MCQueries ==
  [mem \in MCCodes |-> IF mem \in Unity THEN {} ELSE IF mem \in Mixed THEN Bls ELSE Others]
=============================================================================
