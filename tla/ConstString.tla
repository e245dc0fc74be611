---------------------------- MODULE ConstString ----------------------------
(***************************************************************************)
(* The fixed-length string of const_string: a union of 16 bytes that holds *)
(* a short string itself and a pointer to a longer one, and tells them     *)
(* apart by the lowest bit of one byte, which a pointer to an aligned      *)
(* block leaves 0.                                                         *)
(*                                                                         *)
(* A string is its length in bytes and its text (of no account when the    *)
(* length is 0).  The two halves of the union are the fields of one        *)
(* record, and reading a half that was not written yields Junk.  Where the *)
(* tag byte and the pointer do not share storage the tag of a heap string  *)
(* is uninitialised: any byte.                                             *)
(***************************************************************************)
EXTENDS Naturals, FiniteSets

CONSTANTS Names,    \* the variables of the program that own a ConstString
          Lens,     \* the lengths of its strings
          Texts,    \* their contents
          Addrs,    \* the addresses the allocator may return
          Targets,  \* the targets of the build: [endian, word], word in bytes
          Junk

STACK_LEN_MAX == 15
(* Fault: any address will do. *)
PTR_ALIGN_byte == 1
PTR_ALIGN == 2

Strings == [len : Lens, text : Texts]
Blocks == [size : Lens, align : {PTR_ALIGN}, text : Texts]

ASSUME ConstAssumption ==
  /\ Lens \subseteq Nat /\ Addrs \subseteq Nat
  /\ Targets \subseteq [endian : {"little", "big"}, word : {4, 8}]
  /\ Junk \notin Nat \cup Texts \cup Strings \cup Blocks

VARIABLES
  target,  \* the target the program was built for
  rep,     \* rep[n]: the bytes of n's HeapStackStr
  mem,     \* mem[a]: the block allocated at a: its layout and contents
  val      \* val[n]: the string n was given

vars == <<target, rep, mem, val>>

Live == {n \in Names : val[n] # Junk}
Free == {a \in Addrs : mem[a] = Junk}

Init ==
  /\ target \in Targets
  /\ rep = [n \in Names |-> Junk]
  /\ mem = [a \in Addrs |-> Junk]
  /\ val = [n \in Names |-> Junk]

(* The length byte of StackStr is the first of the union on a              *)
(* little-endian target and the last, of 16, on a big-endian one; the      *)
(* pointer of HeapStr is the first or the second word.                     *)
TagOffset == IF target.endian = "little" THEN 0 ELSE STACK_LEN_MAX
PtrLowByte == IF target.endian = "little" THEN 0 ELSE 2 * target.word - 1

(* is_stack *)
IsStack(r) == r.tag % 2 # 0

(* as_str: the length and the contents are read from the half the tag names *)
AsStr(r) ==
  IF IsStack(r) THEN [len |-> r.tag \div 2, text |-> r.str]
  ELSE [len |-> r.len, text |-> IF r.ptr \in Addrs /\ mem[r.ptr] # Junk
                                THEN mem[r.ptr].text ELSE Junk]

(* StackStr::new: the length is shifted past the tag *)
StackStr(v) == [tag |-> (v.len * 2 + 1) % 256, str |-> v.text, ptr |-> Junk, len |-> Junk]

(* HeapStr::new: a block of the string's length, aligned as requested.     *)
(* handle_alloc_error ends the process when there is none.                 *)
HeapStr(n, v) ==
  \E a \in Free :
    /\ a % PTR_ALIGN = 0
    /\ mem' = [mem EXCEPT ![a] = [size |-> v.len, align |-> PTR_ALIGN, text |-> v.text]]
    /\ \E tag \in IF TagOffset = PtrLowByte THEN {a % 256} ELSE 0 .. 255 :
         rep' = [rep EXCEPT ![n] = [tag |-> tag, str |-> Junk, ptr |-> a, len |-> v.len]]

(* ConstString::new, and default, from and from_str through it *)
New(n, v) ==
  /\ n \notin Live
  /\ IF v.len <= STACK_LEN_MAX
     THEN rep' = [rep EXCEPT ![n] = StackStr(v)] /\ UNCHANGED mem
     ELSE HeapStr(n, v)
  /\ val' = [val EXCEPT ![n] = v]
  /\ UNCHANGED target

(* Fault: both halves of the union are Copy, and copied. *)
Clone_copies(m, n) ==
  /\ m \in Live /\ n \notin Live
  /\ rep' = [rep EXCEPT ![n] = rep[m]]
  /\ val' = [val EXCEPT ![n] = val[m]]
  /\ UNCHANGED <<mem, target>>

(* clone: a short string is copied, a long one gets a block of its own *)
Clone(m, n) ==
  /\ m \in Live /\ n \notin Live
  /\ IF IsStack(rep[m])
     THEN rep' = [rep EXCEPT ![n] = rep[m]] /\ UNCHANGED mem
     ELSE HeapStr(n, AsStr(rep[m]))
  /\ val' = [val EXCEPT ![n] = val[m]]
  /\ UNCHANGED target

(* as_mut_str: the caller replaces the contents by as many bytes *)
AsMutStr(n, t) ==
  /\ n \in Live
  /\ IF IsStack(rep[n])
     THEN rep' = [rep EXCEPT ![n].str = t] /\ UNCHANGED mem
     ELSE mem' = [mem EXCEPT ![rep[n].ptr].text = t] /\ UNCHANGED rep
  /\ val' = [val EXCEPT ![n].text = t]
  /\ UNCHANGED target

(* drop, and the end of String::from(ConstString), which copies the text   *)
(* and drops its argument: the block of a long string is returned          *)
Drop(n) ==
  /\ n \in Live
  /\ mem' = IF IsStack(rep[n]) THEN mem ELSE [mem EXCEPT ![rep[n].ptr] = Junk]
  /\ rep' = [rep EXCEPT ![n] = Junk]
  /\ val' = [val EXCEPT ![n] = Junk]
  /\ UNCHANGED target

Next ==
  \/ \E n \in Names : \/ \E v \in Strings : New(n, v)
                      \/ \E m \in Names : Clone(m, n)
                      \/ \E t \in Texts : AsMutStr(n, t)
                      \/ Drop(n)

Spec == Init /\ [][Next]_vars
-----------------------------------------------------------------------------
(* Properties *)

(* A string reads as what it was given, at every length and whatever has   *)
(* happened to the string it was cloned from, to its clones and to the     *)
(* memory that was freed: no pointer is taken for a short string, and no   *)
(* length for a pointer.  Equality, order and hash compare what is read.   *)
Faithful == \A n \in Live : AsStr(rep[n]) = val[n]

(* The blocks that are allocated are those of the long strings, one each,  *)
(* and every string will return its block with the layout it was allocated *)
(* with: none leaks, none is freed twice.                                  *)
Heap == {n \in Live : val[n].len > STACK_LEN_MAX}
OwnedOnce ==
  /\ {a \in Addrs : mem[a] # Junk} = {rep[n].ptr : n \in Heap}
  /\ \A m, n \in Heap : rep[m].ptr = rep[n].ptr => m = n
  /\ \A n \in Heap : mem[rep[n].ptr].size = rep[n].len /\ mem[rep[n].ptr].align = PTR_ALIGN
=============================================================================
