------------------------- MODULE ConstStringProofs -------------------------
(***************************************************************************)
(* The union of ConstString is read as it was written, for every set of    *)
(* strings and addresses, on the targets on which the tag byte and the     *)
(* pointer share storage.                                                  *)
(***************************************************************************)
EXTENDS ConstString, TLAPS

(* The targets of the build have the length byte of StackStr where the low *)
(* byte of the pointer is: all but the big-endian ones of 32 bits.         *)
TagIsShared == \A t \in Targets : t.endian = "big" => t.word = 8
-----------------------------------------------------------------------------
(* The inductive invariant *)

(* The bytes of a string of at most 15 bytes: the tag is odd. *)
Short(r, v) ==
  /\ v.len <= STACK_LEN_MAX
  /\ r = [tag |-> v.len * 2 + 1, str |-> v.text, ptr |-> Junk, len |-> Junk]

(* The bytes of a longer one: the tag is the low byte of an even address,  *)
(* at which a block of the string's length holds the text.                 *)
Long(r, v, m) ==
  /\ v.len > STACK_LEN_MAX
  /\ r = [tag |-> r.ptr % 256, str |-> Junk, ptr |-> r.ptr, len |-> v.len]
  /\ r.ptr \in Addrs /\ r.ptr % PTR_ALIGN = 0
  /\ m[r.ptr] = [size |-> v.len, align |-> PTR_ALIGN, text |-> v.text]

ShapeInv ==
  /\ TagOffset = PtrLowByte
  /\ val \in [Names -> Strings \cup {Junk}]
  /\ mem \in [Addrs -> Blocks \cup {Junk}]
  /\ DOMAIN rep = Names /\ rep = [n \in Names |-> rep[n]]
WrittenInv == \A n \in Live : Short(rep[n], val[n]) \/ Long(rep[n], val[n], mem)
NoSharing == \A m, n \in Heap : rep[m].ptr = rep[n].ptr => m = n
NoLeak == \A a \in Addrs : mem[a] # Junk => \E n \in Heap : rep[n].ptr = a

CInv == ShapeInv /\ WrittenInv /\ NoSharing /\ NoLeak
-----------------------------------------------------------------------------
(* What is read *)

(* A short string is told by its tag, and its length comes back. *)
LEMMA ShortFact ==
  ASSUME NEW r, NEW v \in Strings, Short(r, v)
  PROVE  IsStack(r) /\ AsStr(r) = v /\ r = StackStr(v)
<1>1. v.len \in Nat /\ v.len <= 15 /\ v = [len |-> v.len, text |-> v.text]
  BY ConstAssumption DEF Short, STACK_LEN_MAX, Strings
<1>2. /\ (v.len * 2 + 1) % 2 # 0 /\ (v.len * 2 + 1) \div 2 = v.len
      /\ (v.len * 2 + 1) % 256 = v.len * 2 + 1
  BY <1>1
<1>3. r.tag = v.len * 2 + 1 /\ r.str = v.text
  BY DEF Short
<1>4. IsStack(r)
  BY <1>2, <1>3 DEF IsStack
<1>5. AsStr(r) = v
  BY <1>1, <1>2, <1>3, <1>4 DEF AsStr
<1> QED BY <1>2, <1>4, <1>5 DEF Short, StackStr

(* A long string is told by its tag, and its block is read. *)
LEMMA LongFact ==
  ASSUME NEW r, NEW v \in Strings, Long(r, v, mem)
  PROVE  ~IsStack(r) /\ AsStr(r) = v /\ mem[r.ptr] # Junk
<1>1. v.len \in Nat /\ v.len \in Lens /\ v.text \in Texts /\ v = [len |-> v.len, text |-> v.text]
  BY ConstAssumption DEF Strings
<1>2. r.ptr \in Nat /\ r.ptr % 2 = 0 /\ r.tag = r.ptr % 256 /\ r.len = v.len
  BY ConstAssumption DEF Long, PTR_ALIGN
<1>3. (r.ptr % 256) % 2 = 0
  BY <1>2
<1>4. ~IsStack(r)
  BY <1>2, <1>3 DEF IsStack
<1>5. mem[r.ptr] \in Blocks /\ mem[r.ptr].text = v.text
  BY <1>1 DEF Long, Blocks
<1>6. mem[r.ptr] # Junk
  BY <1>5, ConstAssumption
<1> QED BY <1>1, <1>2, <1>4, <1>5, <1>6 DEF AsStr, Long

(* A live string has a value, and the long ones are those with a block. *)
LEMMA LiveFact ==
  ASSUME CInv, NEW n \in Live
  PROVE  /\ n \in Names /\ val[n] \in Strings /\ val[n].len \in Nat
         /\ n \in Heap => Long(rep[n], val[n], mem)
         /\ n \notin Heap => Short(rep[n], val[n])
<1>1. n \in Names /\ val[n] \in Strings
  BY DEF CInv, ShapeInv, Live
<1>2. val[n].len \in Nat
  BY <1>1, ConstAssumption DEF Strings
<1>3. Short(rep[n], val[n]) \/ Long(rep[n], val[n], mem)
  BY DEF CInv, WrittenInv
<1>4. /\ n \in Heap <=> val[n].len > 15
      /\ Short(rep[n], val[n]) => val[n].len <= 15
      /\ Long(rep[n], val[n], mem) => val[n].len > 15
  BY DEF Heap, Short, Long, STACK_LEN_MAX
<1> QED BY <1>1, <1>2, <1>3, <1>4

(* At the start nothing is allocated. *)
LEMMA InitConst == TagIsShared /\ Init => CInv
<1> SUFFICES ASSUME TagIsShared, Init PROVE CInv
  OBVIOUS
<1>1. TagOffset = PtrLowByte
  <2>1. target \in Targets /\ target.endian \in {"little", "big"}
    BY ConstAssumption DEF Init
  <2> QED BY <2>1 DEF TagIsShared, TagOffset, PtrLowByte, STACK_LEN_MAX
<1>2. Live = {} /\ Heap = {}
  BY DEF Init, Live, Heap
<1> QED BY <1>1, <1>2 DEF Init, CInv, ShapeInv, WrittenInv, NoSharing, NoLeak
-----------------------------------------------------------------------------
(* The steps *)

(* A name is given a short string. *)
LEMMA PutShort ==
  ASSUME CInv, NEW n \in Names, NEW v \in Strings, n \notin Live, v.len <= STACK_LEN_MAX,
         rep' = [rep EXCEPT ![n] = StackStr(v)], val' = [val EXCEPT ![n] = v],
         UNCHANGED <<mem, target>>
  PROVE  CInv'
<1>1. /\ rep'[n] = StackStr(v) /\ val'[n] = v
      /\ \A m \in Names : m # n => rep'[m] = rep[m] /\ val'[m] = val[m]
      /\ val' \in [Names -> Strings \cup {Junk}]
      /\ DOMAIN rep' = Names /\ rep' = [m \in Names |-> rep'[m]]
  BY DEF CInv, ShapeInv
<1>2. Live' = Live \cup {n} /\ v # Junk
  BY <1>1, ConstAssumption DEF Live
<1>3. Heap' = Heap /\ n \notin Heap
  <2>1. v.len \in Nat
    BY ConstAssumption DEF Strings
  <2> QED BY <1>1, <1>2, <2>1 DEF Heap, Live, STACK_LEN_MAX
<1>4. Short(rep'[n], val'[n])
  <2>1. v.len \in Nat /\ v.len <= 15
    BY ConstAssumption DEF Strings, STACK_LEN_MAX
  <2>2. (v.len * 2 + 1) % 256 = v.len * 2 + 1
    BY <2>1
  <2> QED BY <1>1, <2>2 DEF Short, StackStr
<1>5. WrittenInv'
  BY <1>1, <1>2, <1>4 DEF CInv, WrittenInv, Live
<1>6. \A m \in Heap : m \in Names /\ rep'[m] = rep[m]
  BY <1>1, <1>3 DEF Heap, Live
<1>7. NoSharing' /\ NoLeak'
  BY <1>3, <1>6 DEF CInv, NoSharing, NoLeak
<1>8. ShapeInv'
  BY <1>1 DEF CInv, ShapeInv, TagOffset, PtrLowByte
<1> QED BY <1>5, <1>7, <1>8 DEF CInv

(* A name is given a long string, with a block of its own. *)
LEMMA PutLong ==
  ASSUME CInv, NEW n \in Names, NEW v \in Strings, n \notin Live, v.len > STACK_LEN_MAX,
         HeapStr(n, v), val' = [val EXCEPT ![n] = v], UNCHANGED target
  PROVE  CInv'
<1>1. PICK a \in Free :
        /\ a % PTR_ALIGN = 0
        /\ mem' = [mem EXCEPT ![a] = [size |-> v.len, align |-> PTR_ALIGN, text |-> v.text]]
        /\ rep' = [rep EXCEPT ![n] = [tag |-> a % 256, str |-> Junk, ptr |-> a, len |-> v.len]]
  BY DEF HeapStr, CInv, ShapeInv
<1>2. a \in Addrs /\ mem[a] = Junk
  BY DEF Free
<1>3. /\ rep'[n] = [tag |-> a % 256, str |-> Junk, ptr |-> a, len |-> v.len] /\ val'[n] = v
      /\ \A m \in Names : m # n => rep'[m] = rep[m] /\ val'[m] = val[m]
      /\ val' \in [Names -> Strings \cup {Junk}]
      /\ DOMAIN rep' = Names /\ rep' = [m \in Names |-> rep'[m]]
  BY <1>1 DEF CInv, ShapeInv
<1>4. /\ mem'[a] = [size |-> v.len, align |-> PTR_ALIGN, text |-> v.text]
      /\ \A b \in Addrs : b # a => mem'[b] = mem[b]
      /\ mem' \in [Addrs -> Blocks \cup {Junk}]
  <2>1. [size |-> v.len, align |-> PTR_ALIGN, text |-> v.text] \in Blocks
    BY DEF Blocks, Strings
  <2> QED BY <1>1, <1>2, <2>1 DEF CInv, ShapeInv
<1>5. Live' = Live \cup {n} /\ v # Junk
  BY <1>3, ConstAssumption DEF Live
<1>6. Heap' = Heap \cup {n} /\ n \notin Heap
  BY <1>3, <1>5 DEF Heap, Live
<1>7. Long(rep'[n], val'[n], mem')
  BY <1>1, <1>2, <1>3, <1>4 DEF Long
<1>8. \A m \in Heap : m \in Names /\ m # n /\ m \in Live /\ rep[m].ptr # a
  BY <1>2, <1>6, LiveFact, LongFact DEF Heap
<1>9. ASSUME NEW m \in Live
      PROVE  Short(rep'[m], val'[m]) \/ Long(rep'[m], val'[m], mem')
  <2>1. m # n /\ m \in Names /\ rep'[m] = rep[m] /\ val'[m] = val[m]
    BY <1>3 DEF Live
  <2>2. CASE m \in Heap
    <3>1. Long(rep[m], val[m], mem) /\ rep[m].ptr # a
      BY <1>8, <2>2, LiveFact
    <3> QED BY <1>4, <2>1, <3>1 DEF Long
  <2>3. CASE m \notin Heap
    BY <2>1, <2>3, LiveFact
  <2> QED BY <2>2, <2>3
<1>10. WrittenInv'
  BY <1>5, <1>7, <1>9 DEF WrittenInv
<1>11. rep'[n].ptr = a /\ \A m \in Heap : rep'[m].ptr = rep[m].ptr
  BY <1>3, <1>8
<1>12. NoSharing'
  BY <1>6, <1>8, <1>11 DEF CInv, NoSharing
<1>13. NoLeak'
  BY <1>4, <1>6, <1>11 DEF CInv, NoLeak
<1>14. ShapeInv'
  BY <1>3, <1>4 DEF CInv, ShapeInv, TagOffset, PtrLowByte
<1> QED BY <1>10, <1>12, <1>13, <1>14 DEF CInv

(* A string gets another text. *)
LEMMA MutStep ==
  ASSUME CInv, NEW n \in Names, NEW t \in Texts, AsMutStr(n, t)
  PROVE  CInv'
<1>1. n \in Live /\ val[n] \in Strings /\ val' = [val EXCEPT ![n].text = t] /\ target' = target
  BY LiveFact DEF AsMutStr
<1>2. /\ val'[n] = [len |-> val[n].len, text |-> t] /\ val'[n] \in Strings
      /\ \A m \in Names : m # n => val'[m] = val[m]
      /\ val' \in [Names -> Strings \cup {Junk}]
  BY <1>1 DEF CInv, ShapeInv, Strings
<1>3. Live' = Live
  BY <1>1, <1>2, ConstAssumption DEF Live
<1>4. Heap' = Heap
  BY <1>2, <1>3 DEF Heap, Live
<1>5. (TagOffset = PtrLowByte)'
  BY <1>1 DEF CInv, ShapeInv, TagOffset, PtrLowByte
<1>6. CASE n \notin Heap
  <2>1. Short(rep[n], val[n]) /\ IsStack(rep[n])
    BY <1>1, <1>6, LiveFact, ShortFact
  <2>2. mem' = mem /\ rep' = [rep EXCEPT ![n].str = t]
    BY <2>1 DEF AsMutStr
  <2>3. /\ rep'[n] = [rep[n] EXCEPT !.str = t]
        /\ \A m \in Names : m # n => rep'[m] = rep[m]
        /\ DOMAIN rep' = Names /\ rep' = [m \in Names |-> rep'[m]]
    BY <2>2 DEF CInv, ShapeInv
  <2>4. Short(rep'[n], val'[n])
    BY <1>2, <2>1, <2>3 DEF Short
  <2>5. WrittenInv'
    BY <1>2, <1>3, <2>2, <2>3, <2>4 DEF CInv, WrittenInv, Live
  <2>6. \A m \in Heap : rep'[m] = rep[m]
    BY <1>6, <2>3 DEF Heap, Live
  <2>7. NoSharing' /\ NoLeak'
    BY <1>4, <2>2, <2>6 DEF CInv, NoSharing, NoLeak
  <2>8. ShapeInv'
    BY <1>2, <1>5, <2>2, <2>3 DEF CInv, ShapeInv
  <2> QED BY <2>5, <2>7, <2>8 DEF CInv
<1>7. CASE n \in Heap
  <2>0. PICK a : a = rep[n].ptr
    OBVIOUS
  <2>1. Long(rep[n], val[n], mem) /\ ~IsStack(rep[n]) /\ mem[a] # Junk /\ a \in Addrs
    BY <1>1, <1>7, <2>0, LiveFact, LongFact DEF Long
  <2>2. rep' = rep /\ mem' = [mem EXCEPT ![a].text = t]
    BY <2>0, <2>1 DEF AsMutStr
  <2>3. mem[a] = [size |-> val[n].len, align |-> PTR_ALIGN, text |-> val[n].text]
    BY <2>0, <2>1 DEF Long
  <2>4. mem'[a] = [size |-> val[n].len, align |-> PTR_ALIGN, text |-> t]
    BY <2>1, <2>2, <2>3 DEF CInv, ShapeInv
  <2>5. /\ mem'[a] \in Blocks /\ mem'[a] # Junk
        /\ \A b \in Addrs : b # a => mem'[b] = mem[b]
        /\ mem' \in [Addrs -> Blocks \cup {Junk}]
    <3>1. mem'[a] \in Blocks
      BY <1>1, <2>4 DEF Blocks, Strings
    <3>2. \A b \in Addrs : b # a => mem'[b] = mem[b]
      BY <2>1, <2>2 DEF CInv, ShapeInv
    <3> QED BY <2>1, <2>2, <3>1, <3>2, ConstAssumption DEF CInv, ShapeInv
  <2>6. Long(rep'[n], val'[n], mem')
    BY <1>2, <2>0, <2>1, <2>2, <2>4 DEF Long
  <2>7. ASSUME NEW m \in Live, m # n
        PROVE  Short(rep'[m], val'[m]) \/ Long(rep'[m], val'[m], mem')
    <3>1. m \in Names /\ val'[m] = val[m] /\ rep'[m] = rep[m]
      BY <1>2, <2>2, <2>7 DEF Live
    <3>2. CASE m \in Heap
      <4>1. Long(rep[m], val[m], mem) /\ rep[m].ptr # a /\ rep[m].ptr \in Addrs
        BY <1>7, <2>0, <2>7, <3>2, LiveFact DEF CInv, NoSharing, Long
      <4> QED BY <2>5, <3>1, <4>1 DEF Long
    <3>3. CASE m \notin Heap
      BY <3>1, <3>3, LiveFact
    <3> QED BY <3>2, <3>3
  <2>8. WrittenInv'
    BY <1>3, <2>6, <2>7 DEF WrittenInv
  <2>9. NoSharing'
    BY <1>4, <2>2 DEF CInv, NoSharing
  <2>10. NoLeak'
    BY <1>4, <1>7, <2>0, <2>2, <2>5 DEF CInv, NoLeak
  <2>11. ShapeInv'
    BY <1>2, <1>5, <2>2, <2>5 DEF CInv, ShapeInv
  <2> QED BY <2>8, <2>9, <2>10, <2>11 DEF CInv
<1> QED BY <1>6, <1>7

(* A string is dropped, and its block with it. *)
LEMMA DropStep ==
  ASSUME CInv, NEW n \in Names, Drop(n)
  PROVE  CInv'
<1>1. /\ n \in Live /\ rep' = [rep EXCEPT ![n] = Junk] /\ val' = [val EXCEPT ![n] = Junk]
      /\ target' = target
      /\ \A m \in Names : m # n => rep'[m] = rep[m] /\ val'[m] = val[m]
      /\ val'[n] = Junk /\ val' \in [Names -> Strings \cup {Junk}]
      /\ DOMAIN rep' = Names /\ rep' = [m \in Names |-> rep'[m]]
  BY DEF Drop, CInv, ShapeInv
<1>2. Live' = Live \ {n}
  BY <1>1 DEF Live
<1>3. Heap' = Heap \ {n}
  BY <1>1, <1>2 DEF Heap, Live
<1>4. (TagOffset = PtrLowByte)'
  BY <1>1 DEF CInv, ShapeInv, TagOffset, PtrLowByte
<1>5. \A m \in Live' : m \in Live /\ m # n /\ m \in Names /\ rep'[m] = rep[m] /\ val'[m] = val[m]
  BY <1>1, <1>2 DEF Live
<1>6. \A m \in Heap' : m \in Heap /\ m # n /\ rep'[m] = rep[m]
  BY <1>1, <1>3 DEF Heap, Live
<1>7. CASE n \notin Heap
  <2>1. mem' = mem
    BY <1>1, <1>7, LiveFact, ShortFact DEF Drop
  <2>2. Heap' = Heap
    BY <1>3, <1>7
  <2>3. WrittenInv'
    BY <1>5, <2>1 DEF CInv, WrittenInv
  <2>4. NoSharing' /\ NoLeak'
    BY <1>6, <2>1, <2>2 DEF CInv, NoSharing, NoLeak
  <2>5. ShapeInv'
    BY <1>1, <1>4, <2>1 DEF CInv, ShapeInv
  <2> QED BY <2>3, <2>4, <2>5 DEF CInv
<1>8. CASE n \in Heap
  <2>0. PICK a : a = rep[n].ptr
    OBVIOUS
  <2>1. a \in Addrs /\ mem' = [mem EXCEPT ![a] = Junk]
    BY <1>1, <1>8, <2>0, LiveFact, LongFact DEF Drop, Long
  <2>2. /\ mem'[a] = Junk /\ \A b \in Addrs : b # a => mem'[b] = mem[b]
        /\ mem' \in [Addrs -> Blocks \cup {Junk}]
    BY <2>1 DEF CInv, ShapeInv
  <2>3. \A m \in Heap' : rep[m].ptr # a
    BY <1>6, <1>8, <2>0 DEF CInv, NoSharing
  <2>4. ASSUME NEW m \in Live'
        PROVE  Short(rep'[m], val'[m]) \/ Long(rep'[m], val'[m], mem')
    <3>1. CASE m \in Heap
      <4>1. Long(rep[m], val[m], mem) /\ rep[m].ptr \in Addrs /\ rep[m].ptr # a
        BY <1>3, <1>5, <2>3, <3>1, LiveFact DEF Long
      <4> QED BY <1>5, <2>2, <4>1 DEF Long
    <3>2. CASE m \notin Heap
      BY <1>5, <3>2, LiveFact
    <3> QED BY <3>1, <3>2
  <2>5. WrittenInv'
    BY <2>4 DEF WrittenInv
  <2>6. NoSharing'
    BY <1>6 DEF CInv, NoSharing
  <2>7. NoLeak'
    BY <1>3, <1>6, <2>0, <2>2 DEF CInv, NoLeak
  <2>8. ShapeInv'
    BY <1>1, <1>4, <2>2 DEF CInv, ShapeInv
  <2> QED BY <2>5, <2>6, <2>7, <2>8 DEF CInv
<1> QED BY <1>7, <1>8
-----------------------------------------------------------------------------
(* The theorems *)

(* Every step preserves the invariant. *)
LEMMA ConstStep == CInv /\ [Next]_vars => CInv'
<1> SUFFICES ASSUME CInv, [Next]_vars PROVE CInv'
  OBVIOUS
<1>1. ASSUME NEW n \in Names, NEW v \in Strings, New(n, v) PROVE CInv'
  <2>1. v.len \in Nat
    BY ConstAssumption DEF Strings
  <2>2. CASE v.len <= STACK_LEN_MAX
    BY <1>1, <2>2, PutShort DEF New
  <2>3. CASE ~(v.len <= STACK_LEN_MAX)
    <3>1. v.len > STACK_LEN_MAX
      BY <2>1, <2>3 DEF STACK_LEN_MAX
    <3> QED BY <1>1, <2>3, <3>1, PutLong DEF New
  <2> QED BY <2>2, <2>3
<1>2. ASSUME NEW m \in Names, NEW n \in Names, Clone(m, n) PROVE CInv'
  <2>1. m \in Live /\ n \notin Live /\ val[m] \in Strings /\ target' = target
        /\ val' = [val EXCEPT ![n] = val[m]]
    BY <1>2, LiveFact DEF Clone
  <2>2. CASE m \in Heap
    <3>1. /\ ~IsStack(rep[m]) /\ AsStr(rep[m]) = val[m] /\ val[m].len > STACK_LEN_MAX
      BY <2>1, <2>2, LiveFact, LongFact DEF Heap
    <3> QED BY <1>2, <2>1, <3>1, PutLong DEF Clone
  <2>3. CASE m \notin Heap
    <3>1. IsStack(rep[m]) /\ rep[m] = StackStr(val[m]) /\ val[m].len <= STACK_LEN_MAX
      BY <2>1, <2>3, LiveFact, ShortFact DEF Short
    <3>2. rep' = [rep EXCEPT ![n] = StackStr(val[m])] /\ mem' = mem
      BY <1>2, <3>1 DEF Clone
    <3> QED BY <2>1, <3>1, <3>2, PutShort
  <2> QED BY <2>2, <2>3
<1>3. CASE UNCHANGED vars
  BY <1>3 DEF CInv, ShapeInv, WrittenInv, NoSharing, NoLeak, vars, TagOffset, PtrLowByte,
              Live, Heap
<1> QED BY <1>1, <1>2, <1>3, MutStep, DropStep DEF Next

(* The bytes of every string stay what its constructor wrote. *)
THEOREM ConstInvariant == TagIsShared /\ Spec => []CInv
<1>1. TagIsShared /\ Init => CInv
  BY InitConst
<1>2. CInv /\ [Next]_vars => CInv'
  BY ConstStep
<1> QED BY <1>1, <1>2, PTL DEF Spec

(* const_string: on a target that shares the tag byte a string reads as    *)
(* what it was given, at every length and every address.                   *)
THEOREM ReadsBack == TagIsShared /\ Spec => []Faithful
<1>1. CInv => Faithful
  BY LiveFact, ShortFact, LongFact DEF Faithful
<1> QED BY <1>1, ConstInvariant, PTL

(* const_string: no block leaks or is freed twice, and each is returned    *)
(* with the layout it was allocated with.                                  *)
THEOREM BlocksOwned == TagIsShared /\ Spec => []OwnedOnce
<1>1. CInv => OwnedOnce
  <2> SUFFICES ASSUME CInv PROVE OwnedOnce
    OBVIOUS
  <2>1. \A n \in Heap : n \in Live /\ Long(rep[n], val[n], mem) /\ mem[rep[n].ptr] # Junk
    BY LiveFact, LongFact DEF Heap
  <2>2. \A n \in Heap : /\ rep[n].ptr \in Addrs /\ mem[rep[n].ptr] # Junk
                        /\ mem[rep[n].ptr].size = rep[n].len
                        /\ mem[rep[n].ptr].align = PTR_ALIGN
    <3>1. ASSUME NEW r, NEW v, Long(r, v, mem)
          PROVE  /\ r.ptr \in Addrs /\ r.len = v.len
                 /\ mem[r.ptr].size = v.len /\ mem[r.ptr].align = PTR_ALIGN
      BY <3>1 DEF Long
    <3> QED BY <2>1, <3>1
  <2>3. {a \in Addrs : mem[a] # Junk} = {rep[n].ptr : n \in Heap}
    <3>1. \A a \in Addrs : mem[a] # Junk => a \in {rep[n].ptr : n \in Heap}
      BY DEF CInv, NoLeak
    <3>2. \A n \in Heap : rep[n].ptr \in {a \in Addrs : mem[a] # Junk}
      BY <2>2
    <3> QED BY <3>1, <3>2
  <2> QED BY <2>2, <2>3 DEF CInv, NoSharing, OwnedOnce
<1> QED BY <1>1, ConstInvariant, PTL
=============================================================================
