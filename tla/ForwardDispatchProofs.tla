----------------------- MODULE ForwardDispatchProofs -----------------------
(***************************************************************************)
(* What an attribute is read as and where a forwarded call runs, for every *)
(* attribute, table of kinds and method.                                   *)
(*                                                                         *)
(* The parser goes over tokens, the grammar over items.  MacroInv says     *)
(* where in the tokens the parser is, by the item it is at, and that the   *)
(* settings so far are the ones of the items before it.  That the tokens   *)
(* of the items lie one behind the other is FlattenFact of SequenceFacts.  *)
(***************************************************************************)
EXTENDS ForwardDispatch, SequenceFacts, TLAPS

(* The inductive invariant of the parser *)

(* Where the items of an attribute begin in its tokens, at[i] for item i. *)
Laid(s, at) ==
  /\ at \in [1 .. Len(s.items) + 1 -> Nat]
  /\ at[1] = 1 /\ at[Len(s.items) + 1] = Len(Tokens(s)) + 1
  /\ \A i \in 1 .. Len(s.items) :
       LET g == ItemTokens(s, i) \o Joint(s, i)
       IN  /\ at[i + 1] = at[i] + Len(g) /\ at[i] > 0 /\ at[i + 1] <= Len(Tokens(s)) + 1
           /\ \A p \in 1 .. Len(g) : Tokens(s)[at[i] + p - 1] = g[p]

Starts(s) == CHOOSE at : Laid(s, at)

Begin(i) == Starts(src)[i]
ValueAt(i) == IF src.items[i].name = "" THEN Begin(i) ELSE Begin(i) + 2
Past(i) == ValueAt(i) + Len(src.items[i].value)

(* The first k items are as the grammar wants them, *)
Accepted(k) ==
  /\ \A i, j \in 1 .. k :
       /\ Target(i) \in Attrs /\ Fits(src.items[i].value, AttrType[Target(i)])
       /\ i # j => Target(i) # Target(j)
       /\ i < j /\ src.items[j].name = "" => src.items[i].name = ""
  /\ \A i \in 1 .. k : src.items[i].name = "" => src.items[i].value[1].kind = "path"

(* they are what is set so far, *)
Read(k) ==
  /\ conf = [a \in DOMAIN Empty |-> conf[a]]
  /\ \A i \in 1 .. k : conf[Target(i)] = Meaning(src.items[i].value)
  /\ \A a \in DOMAIN Empty : (\A i \in 1 .. k : Target(i) # a) => conf[a] = None

(* and a name is required once there was one, or no setting is left that   *)
(* goes without.                                                           *)
Counted(k) ==
  \/ /\ ~named /\ index = k /\ k < Len(Order)
     /\ \A i \in 1 .. k : src.items[i].name = ""
  \/ named /\ (k >= Len(Order) \/ \E i \in 1 .. k : src.items[i].name # "")

Upto(k) == Accepted(k) /\ Read(k) /\ Counted(k)

(* With a separator that is missing or doubled no other item is reached. *)
Reached(k) == src.style # "leading" /\ (src.style \in {"missing", "double"} => k = 1)

(* What the parser accepts: the grammar without its two exceptions. *)
Readable == WellFormed /\ ~Refused

(* Between two items the parser is where the one ends and the other        *)
(* begins, or on a token that it will refuse, in an attribute that is not  *)
(* readable.                                                               *)
MacroInv ==
  /\ src \in Inputs /\ named \in BOOLEAN
  /\ res \in {"attribute", "item", "separator", "ok", "error"}
  /\ res = "attribute" => pos = 1 /\ conf = Empty /\ index = 0 /\ ~named
  /\ res \in {"item", "separator"} => src.form = "list"
  /\ res = "item" =>
       \/ Token(pos).kind = "," /\ ~Readable
       \/ \E k \in 1 .. Len(src.items) : pos = Begin(k) /\ Reached(k) /\ Upto(k - 1)
  /\ res = "separator" =>
       \/ Token(pos).kind \notin {",", "end"} /\ ~Readable
       \/ \E k \in 1 .. Len(src.items) : pos = Past(k) /\ Reached(k) /\ Upto(k)
  /\ res = "error" => ~Readable
  /\ res = "ok" => Readable /\ conf = Settings
-----------------------------------------------------------------------------
(* The tokens of an attribute *)

(* A value is made of the tokens at its one or two places. *)
LEMMA ShortFact ==
  ASSUME NEW T, NEW v, v \in Seq(ToSet(v)), Len(v) \in {1, 2}, v[1] \in T, v[2] \in T
  PROVE  v \in Seq(T)
<1>1. \A p \in 1 .. Len(v) : v[p] \in T
  OBVIOUS
<1> QED BY <1>1

(* A value behind two tokens. *)
LEMMA PrefixFact ==
  ASSUME NEW T, NEW x \in T, NEW y \in T, NEW v \in Seq(T), Len(v) \in {1, 2}
  PROVE  LET w == <<x, y>> \o v
         IN  /\ w \in Seq(T) /\ Len(w) = 2 + Len(v)
             /\ w[1] = x /\ w[2] = y /\ w[3] = v[1] /\ (Len(v) = 2 => w[4] = v[2])
<1> DEFINE h == <<x, y>>
           w == h \o v
<1>1. h \in Seq(T) /\ Len(h) = 2 /\ h[1] = x /\ h[2] = y
  OBVIOUS
<1>2. h \in Seq(T)
  BY <1>1
<1> HIDE DEF h
<1>3. /\ w \in Seq(T) /\ Len(w) = Len(h) + Len(v)
      /\ \A p \in 1 .. Len(h) : w[p] = h[p]
      /\ \A p \in 1 .. Len(v) : w[Len(h) + p] = v[p]
  BY <1>2, ConcatFact
<1> HIDE DEF w
<1>4. w[1] = x /\ w[2] = y
  BY <1>1, <1>3
<1>5. w[3] = v[1]
  BY <1>1, <1>3
<1>6. Len(v) = 2 => w[4] = v[2]
  BY <1>1, <1>3
<1> QED BY <1>1, <1>3, <1>4, <1>5, <1>6 DEF h, w

(* The tokens that an attribute is written with. *)
Tok(s) ==
  {s.items[i].value[1] : i \in 1 .. Len(s.items)} \cup
  {s.items[i].value[2] : i \in 1 .. Len(s.items)} \cup
  {Path(s.items[i].name) : i \in 1 .. Len(s.items)} \cup {Punct(","), Punct("=")}

(* An attribute has the shape that is assumed of it. *)
LEMMA InputFact ==
  ASSUME NEW s \in Inputs
  PROVE  /\ Len(s.items) \in Nat /\ DOMAIN s.items = 1 .. Len(s.items)
         /\ s.style \in {"plain", "trailing", "leading", "missing", "double"}
         /\ s.form \in {"absent", "path", "name_value", "list"}
         /\ s.style = "trailing" => Len(s.items) > 0
         /\ s.style \in {"missing", "double"} => Len(s.items) > 1
         /\ \A i \in 1 .. Len(s.items) :
              LET v == s.items[i].value
              IN  /\ v \in Seq(Tok(s))
                  /\ Len(v) \in {1, 2} /\ v[1].kind \in {"path", "str", "int"} /\ v[1].of # "none"
                  /\ Len(v) = 2 => v[2].kind = "paren"
<1>1. Len(s.items) \in Nat /\ DOMAIN s.items = 1 .. Len(s.items)
  BY InputAssumption
<1>2. ASSUME NEW i \in 1 .. Len(s.items) PROVE s.items[i].value \in Seq(Tok(s))
  <2> DEFINE v == s.items[i].value
  <2>1. v \in Seq(ToSet(v))
    BY <1>1, InputAssumption
  <2>2. v[1] \in Tok(s) /\ v[2] \in Tok(s)
    BY Zenon DEF Tok
  <2>3. Len(v) \in {1, 2}
    BY <1>1, InputAssumption
  <2> HIDE DEF v
  <2>4. v \in Seq(Tok(s))
    BY <2>1, <2>2, <2>3, ShortFact
  <2> QED BY <2>4 DEF v
<1> QED BY <1>1, <1>2, InputAssumption

(* What is written for an item is a sequence of tokens. *)
LEMMA WrittenFact ==
  ASSUME NEW s \in Inputs, NEW i \in 1 .. Len(s.items)
  PROVE  LET v == s.items[i].value
             w == ItemTokens(s, i)
         IN  /\ w \in Seq(Tok(s)) /\ Joint(s, i) \in Seq(Tok(s))
             /\ s.items[i].name = "" => w = v
             /\ s.items[i].name # "" =>
                  /\ Len(w) = 2 + Len(v)
                  /\ w[1] = Path(s.items[i].name) /\ w[2] = Punct("=")
                  /\ w[3] = v[1] /\ (Len(v) = 2 => w[4] = v[2])
<1> DEFINE v == s.items[i].value
           n == s.items[i].name
<1>1. v \in Seq(Tok(s)) /\ Len(v) \in {1, 2}
  BY InputFact
<1>2. \A x, y \in Tok(s) :
        /\ <<>> \in Seq(Tok(s)) /\ <<x>> \in Seq(Tok(s)) /\ <<x, y>> \in Seq(Tok(s))
        /\ Len(<<x, y>>) = 2 /\ <<x, y>>[1] = x /\ <<x, y>>[2] = y
  OBVIOUS
<1>3. Path(n) \in Tok(s) /\ Punct("=") \in Tok(s) /\ Punct(",") \in Tok(s)
  BY DEF Tok
<1>4. Joint(s, i) \in Seq(Tok(s))
  <2>1. /\ <<>> \in Seq(Tok(s)) /\ <<Punct(",")>> \in Seq(Tok(s))
        /\ <<Punct(","), Punct(",")>> \in Seq(Tok(s))
    BY <1>2, <1>3
  <2> QED BY <2>1 DEF Joint
<1>5. CASE n = ""
  <2>1. ItemTokens(s, i) = <<>> \o v
    BY <1>5 DEF ItemTokens
  <2>2. <<>> \o v = v
    BY <1>1
  <2> QED BY <1>1, <1>4, <1>5, <2>1, <2>2
<1>6. CASE n # ""
  <2>1. ItemTokens(s, i) = <<Path(n), Punct("=")>> \o v
    BY <1>6 DEF ItemTokens
  <2> HIDE DEF v
  <2>2. v \in Seq(Tok(s)) /\ Len(v) \in {1, 2}
    BY <1>1 DEF v
  <2>3. LET w == <<Path(n), Punct("=")>> \o v
        IN  /\ w \in Seq(Tok(s)) /\ Len(w) = 2 + Len(v)
            /\ w[1] = Path(n) /\ w[2] = Punct("=") /\ w[3] = v[1] /\ (Len(v) = 2 => w[4] = v[2])
    <3>1. Path(n) \in Tok(s) /\ Punct("=") \in Tok(s) /\ v \in Seq(Tok(s)) /\ Len(v) \in {1, 2}
      BY <1>3, <2>2
    <3> QED BY <3>1, PrefixFact
  <2> HIDE DEF n
  <2> QED BY <1>4, <1>6, <2>1, <2>3 DEF v, n
<1> QED BY <1>5, <1>6

(* The items and what joins them are sequences of tokens. *)
LEMMA GroupsFact ==
  ASSUME NEW s \in Inputs
  PROVE  LET ss == [i \in 1 .. Len(s.items) |-> ItemTokens(s, i) \o Joint(s, i)]
         IN  /\ Len(s.items) \in Nat /\ DOMAIN s.items = 1 .. Len(s.items)
             /\ ss \in Seq(Seq(Tok(s))) /\ Len(ss) = Len(s.items) /\ FlattenSeq(ss) \in Seq(Tok(s))
<1> DEFINE G(i) == ItemTokens(s, i) \o Joint(s, i)
           n == Len(s.items)
           ss == [i \in 1 .. n |-> G(i)]
<1>1. n \in Nat /\ DOMAIN s.items = 1 .. n
  BY InputFact
<1>2. \A i \in 1 .. n : G(i) \in Seq(Tok(s))
  BY WrittenFact, ConcatFact
<1>3. ss \in Seq(Seq(Tok(s))) /\ Len(ss) = n
  BY <1>1, <1>2
<1> HIDE DEF ss
<1>4. FlattenSeq(ss) \in Seq(Tok(s))
  BY <1>3, FlattenFact
<1> QED BY <1>1, <1>3, <1>4 DEF ss

(* A comma that should not be there comes first. *)
LEMMA LeadFact ==
  ASSUME src \in Inputs, src.style = "leading"
  PROVE  Token(1) = Punct(",")
<1> DEFINE F == FlattenSeq([i \in 1 .. Len(src.items) |-> ItemTokens(src, i) \o Joint(src, i)])
<1>1. F \in Seq(Tok(src)) /\ DOMAIN src.items = 1 .. Len(src.items)
  BY GroupsFact
<1>2. Tokens(src) = <<Punct(",")>> \o F
  BY <1>1 DEF Tokens
<1>3. Punct(",") \in Tok(src)
  BY DEF Tok
<1> HIDE DEF F
<1>4. \A T, c : c \in T => \A s \in Seq(T) : (<<c>> \o s)[1] = c /\ 1 <= Len(<<c>> \o s)
  OBVIOUS
<1> QED BY <1>1, <1>2, <1>3, <1>4 DEF Token

(* The items are laid out one after the other. *)
LEMMA LaidFact ==
  ASSUME NEW s \in Inputs, s.style # "leading"
  PROVE  Tokens(s) \in Seq(Tok(s)) /\ \E at : Laid(s, at)
<1> DEFINE G(i) == ItemTokens(s, i) \o Joint(s, i)
           n == Len(s.items)
           ss == [i \in 1 .. n |-> G(i)]
           F == FlattenSeq(ss)
<1>1. n \in Nat /\ DOMAIN s.items = 1 .. n
  BY InputFact
<1>2. \A i \in 1 .. n : G(i) \in Seq(Tok(s))
  BY WrittenFact, ConcatFact
<1>3. ss \in Seq(Seq(Tok(s))) /\ Len(ss) = n /\ \A i \in 1 .. n : ss[i] = G(i)
  BY GroupsFact
<1>4. Tokens(s) = <<>> \o F
  BY <1>1 DEF Tokens
<1> HIDE DEF ss
<1>5. F \in Seq(Tok(s))
  BY <1>3, FlattenFact
<1>6. Tokens(s) = F
  BY <1>4, <1>5
<1>7. PICK b \in [1 .. Len(ss) + 1 -> Nat] :
        /\ b[1] = 0 /\ b[Len(ss) + 1] = Len(F)
        /\ \A i \in 1 .. Len(ss) :
             /\ b[i + 1] = b[i] + Len(ss[i]) /\ b[i + 1] <= Len(F)
             /\ \A p \in 1 .. Len(ss[i]) : F[b[i] + p] = ss[i][p]
  <2>1. ss \in Seq(Seq(Tok(s)))
    BY <1>3
  <2> QED BY <2>1, FlattenFact
<1> DEFINE at == [i \in 1 .. n + 1 |-> b[i] + 1]
<1> HIDE DEF F, G
<1>8. /\ at \in [1 .. n + 1 -> Nat] /\ at[1] = 1 /\ at[n + 1] = Len(F) + 1
      /\ \A i \in 1 .. n : at[i] = b[i] + 1 /\ at[i + 1] = b[i + 1] + 1 /\ b[i] \in Nat
  BY <1>1, <1>3, <1>7
<1> HIDE DEF at
<1>9. Len(F) \in Nat /\ \A i \in 1 .. n : Len(G(i)) \in Nat
  BY <1>2, <1>5
<1>10. ASSUME NEW i \in 1 .. n
       PROVE  /\ at[i + 1] = at[i] + Len(G(i)) /\ at[i] > 0 /\ at[i + 1] <= Len(F) + 1
              /\ \A p \in 1 .. Len(G(i)) : F[at[i] + p - 1] = G(i)[p]
  <2>0. i \in 1 .. Len(ss) /\ ss[i] = G(i)
    BY <1>3
  <2>1. /\ b[i + 1] = b[i] + Len(G(i)) /\ b[i + 1] <= Len(F)
        /\ \A p \in 1 .. Len(G(i)) : F[b[i] + p] = G(i)[p]
    BY <1>7, <2>0
  <2>2. at[i] = b[i] + 1 /\ at[i + 1] = b[i + 1] + 1 /\ b[i] \in Nat /\ Len(G(i)) \in Nat
    BY <1>8, <1>9
  <2>3. \A p \in 1 .. Len(G(i)) : at[i] + p - 1 = b[i] + p
    BY <2>2
  <2>4. \A p \in 1 .. Len(G(i)) : F[at[i] + p - 1] = G(i)[p]
    BY <2>1, <2>3
  <2>5. b[i + 1] \in Nat /\ Len(F) \in Nat
    BY <1>9, <2>1, <2>2
  <2>6. at[i + 1] = at[i] + Len(G(i)) /\ at[i] > 0 /\ at[i + 1] <= Len(F) + 1
    BY <2>1, <2>2, <2>5
  <2> QED BY <2>4, <2>6
<1>11. /\ at \in [1 .. n + 1 -> Nat] /\ at[1] = 1 /\ at[n + 1] = Len(Tokens(s)) + 1
       /\ \A i \in 1 .. n :
            /\ at[i + 1] = at[i] + Len(G(i)) /\ at[i] > 0 /\ at[i + 1] <= Len(Tokens(s)) + 1
            /\ \A p \in 1 .. Len(G(i)) : Tokens(s)[at[i] + p - 1] = G(i)[p]
  BY <1>6, <1>8, <1>10
<1>12. Laid(s, at)
  BY <1>11, Zenon DEF Laid, G
<1> QED BY <1>5, <1>6, <1>12

(* The parser sees an item where it begins, and behind it what joins it to *)
(* the next one.                                                           *)
LEMMA BeginFact ==
  ASSUME src \in Inputs, src.style # "leading", NEW k \in 1 .. Len(src.items)
  PROVE  LET w == ItemTokens(src, k)
             j == Joint(src, k)
         IN  /\ Begin(k) \in Nat /\ Begin(k) > 0
             /\ Begin(k + 1) = Begin(k) + Len(w) + Len(j)
             /\ \A p \in 1 .. Len(w) : Token(Begin(k) + p - 1) = w[p]
             /\ \A p \in 1 .. Len(j) : Token(Begin(k) + Len(w) + p - 1) = j[p]
             /\ k = Len(src.items) => AtEnd(Begin(k + 1))
<1> DEFINE w == ItemTokens(src, k)
           j == Joint(src, k)
           g == w \o j
           T == Tokens(src)
           b == Begin(k)
<1>1. T \in Seq(Tok(src)) /\ Laid(src, Starts(src))
  BY LaidFact DEF Starts
<1>2. w \in Seq(Tok(src)) /\ j \in Seq(Tok(src))
  BY WrittenFact
<1>3. Len(src.items) \in Nat /\ k \in 1 .. Len(src.items) + 1
  BY InputFact
<1>4. /\ b \in Nat /\ b > 0 /\ Begin(k + 1) = b + Len(g) /\ Begin(k + 1) <= Len(T) + 1
      /\ \A p \in 1 .. Len(g) : T[b + p - 1] = g[p]
      /\ k = Len(src.items) => Begin(k + 1) = Len(T) + 1
  BY <1>1, <1>3 DEF Laid, Begin
<1> HIDE DEF w, j, T, b
<1>5. /\ Len(g) = Len(w) + Len(j) /\ Len(w) \in Nat /\ Len(j) \in Nat /\ Len(T) \in Nat
      /\ \A p \in 1 .. Len(w) : g[p] = w[p]
      /\ \A p \in 1 .. Len(j) : g[Len(w) + p] = j[p]
  <2>1. Len(w) \in Nat /\ Len(j) \in Nat /\ Len(T) \in Nat
    BY <1>1, <1>2
  <2>2. w \in Seq(Tok(src)) /\ j \in Seq(Tok(src))
    BY <1>2
  <2> QED BY <2>1, <2>2, ConcatFact
<1> HIDE DEF g
<1>6. PICK lw \in Nat, lj \in Nat, lt \in Nat, lb \in Nat :
        lw = Len(w) /\ lj = Len(j) /\ lt = Len(T) /\ lb = b /\ lb > 0 /\ lb + (lw + lj) <= lt + 1
  BY <1>4, <1>5
<1>7. \A p \in 1 .. lw + lj : Token(lb + p - 1) = T[lb + p - 1]
  <2>1. \A p \in 1 .. lw + lj : lb + p - 1 <= lt
    BY <1>6
  <2> QED BY <1>6, <2>1 DEF Token, T
<1>8. \A p \in 1 .. lw : Token(lb + p - 1) = w[p]
  <2>1. \A p \in 1 .. lw : p \in 1 .. lw + lj
    BY <1>6
  <2> QED BY <1>4, <1>5, <1>6, <1>7, <2>1
<1>9. \A p \in 1 .. lj : Token(lb + lw + p - 1) = j[p]
  <2>1. \A p \in 1 .. lj : lw + p \in 1 .. lw + lj /\ lb + (lw + p) - 1 = lb + lw + p - 1
    BY <1>6
  <2>2. \A p \in 1 .. lj : T[lb + (lw + p) - 1] = g[lw + p]
    BY <1>4, <1>5, <1>6, <2>1
  <2>3. \A p \in 1 .. lj : Token(lb + (lw + p) - 1) = T[lb + (lw + p) - 1]
    BY <1>7, <2>1
  <2>4. \A p \in 1 .. lj : g[lw + p] = j[p]
    BY <1>5, <1>6
  <2> QED BY <2>1, <2>2, <2>3, <2>4
<1>10. k = Len(src.items) => AtEnd(Begin(k + 1))
  <2>1. ~(lt + 1 <= lt)
    BY <1>6
  <2> QED BY <1>4, <1>6, <2>1 DEF AtEnd, Token, Punct, T
<1>11. Begin(k + 1) = lb + lw + lj
  BY <1>4, <1>5, <1>6
<1> QED BY <1>4, <1>6, <1>8, <1>9, <1>10, <1>11 DEF w, j, b

(* The tokens of an item, with or without a name. *)
LEMMA ItemFact ==
  ASSUME src \in Inputs, src.style # "leading", NEW k \in 1 .. Len(src.items)
  PROVE  LET v == src.items[k].value
         IN  /\ Begin(k) \in Nat /\ ValueAt(k) \in Nat /\ Past(k) \in Nat
             /\ Past(k) = Begin(k) + Len(ItemTokens(src, k))
             /\ Token(ValueAt(k)) = v[1] /\ (Len(v) = 2 => Token(ValueAt(k) + 1) = v[2])
             /\ src.items[k].name # "" => /\ Token(Begin(k)) = Path(src.items[k].name)
                                          /\ Token(Begin(k) + 1) = Punct("=")
<1> DEFINE v == src.items[k].value
           w == ItemTokens(src, k)
           b == Begin(k)
<1>1. Len(v) \in {1, 2}
  BY InputFact
<1>2. b \in Nat /\ \A p \in 1 .. Len(w) : Token(b + p - 1) = w[p]
  BY BeginFact
<1>3. CASE src.items[k].name = ""
  <2>1. w = v /\ ValueAt(k) = b /\ Past(k) = b + Len(v)
    BY <1>3, WrittenFact DEF ValueAt, Past
  <2> HIDE DEF v, w, b
  <2>2. Token(b) = v[1] /\ (Len(v) = 2 => Token(b + 1) = v[2])
    <3>1. PICK n \in {1, 2} : n = Len(v)
      BY <1>1
    <3>2. 1 \in 1 .. n /\ b + 1 - 1 = b
      BY <1>2
    <3>3. n = 2 => 2 \in 1 .. n /\ b + 2 - 1 = b + 1
      BY <1>2
    <3> QED BY <1>2, <2>1, <3>1, <3>2, <3>3
  <2>3. b + Len(v) \in Nat
    BY <1>1, <1>2
  <2> QED BY <1>2, <1>3, <2>1, <2>2, <2>3 DEF v, w, b
<1>4. CASE src.items[k].name # ""
  <2>1. /\ ValueAt(k) = b + 2 /\ Past(k) = (b + 2) + Len(v) /\ Len(w) = 2 + Len(v)
        /\ w[1] = Path(src.items[k].name) /\ w[2] = Punct("=")
        /\ w[3] = v[1] /\ (Len(v) = 2 => w[4] = v[2])
    BY <1>4, WrittenFact DEF ValueAt, Past
  <2> HIDE DEF v, w, b
  <2>2. PICK n \in {1, 2} : n = Len(v)
    BY <1>1
  <2>3. /\ 1 \in 1 .. 2 + n /\ b + 1 - 1 = b /\ 2 \in 1 .. 2 + n /\ b + 2 - 1 = b + 1
        /\ 3 \in 1 .. 2 + n /\ b + 3 - 1 = b + 2
    BY <1>2
  <2>4. n = 2 => 4 \in 1 .. 2 + n /\ b + 4 - 1 = (b + 2) + 1
    BY <1>2
  <2>5. /\ Token(b) = w[1] /\ Token(b + 1) = w[2] /\ Token(b + 2) = w[3]
        /\ n = 2 => Token((b + 2) + 1) = w[4]
    BY <1>2, <2>1, <2>2, <2>3, <2>4
  <2>6. b + 2 \in Nat /\ (b + 2) + n \in Nat /\ (b + 2) + n = b + (2 + n)
    BY <1>2
  <2> QED BY <1>2, <1>4, <2>1, <2>2, <2>5, <2>6 DEF v, w, b
<1> QED BY <1>3, <1>4

(* What follows an item. *)
LEMMA PastFact ==
  ASSUME src \in Inputs, src.style # "leading", NEW k \in 1 .. Len(src.items)
  PROVE  /\ k = Len(src.items) =>
              IF src.style = "trailing"
              THEN Token(Past(k)) = Punct(",") /\ AtEnd(Past(k) + 1) ELSE AtEnd(Past(k))
         /\ k < Len(src.items) /\ src.style = "missing" => Past(k) = Begin(k + 1)
         /\ k < Len(src.items) /\ src.style = "double" =>
              Token(Past(k)) = Punct(",") /\ Token(Past(k) + 1) = Punct(",")
         /\ k < Len(src.items) /\ src.style \in {"plain", "trailing"} =>
              Token(Past(k)) = Punct(",") /\ Begin(k + 1) = Past(k) + 1
<1> DEFINE j == Joint(src, k)
           n == Len(src.items)
           e == Past(k)
           c == Punct(",")
<1>1. e \in Nat /\ e = Begin(k) + Len(ItemTokens(src, k)) /\ Begin(k) \in Nat
  BY ItemFact
<1>2. /\ Begin(k + 1) = e + Len(j) /\ (k = n => AtEnd(Begin(k + 1)))
      /\ \A p \in 1 .. Len(j) : Token(e + p - 1) = j[p]
  BY <1>1, BeginFact
<1>3. /\ k = n => j = IF src.style = "trailing" THEN <<c>> ELSE <<>>
      /\ k # n /\ src.style = "missing" => j = <<>>
      /\ k # n /\ src.style = "double" => j = <<c, c>>
      /\ k # n /\ src.style \in {"plain", "trailing"} => j = <<c>>
  BY DEF Joint
<1>4. n \in Nat /\ k \in Nat /\ src.style \in {"plain", "trailing", "leading", "missing", "double"}
  BY InputFact
<1> HIDE DEF j, n, e, c
<1>5. /\ Len(<<>>) = 0 /\ Len(<<c>>) = 1 /\ <<c>>[1] = c
      /\ Len(<<c, c>>) = 2 /\ <<c, c>>[1] = c /\ <<c, c>>[2] = c
  OBVIOUS
<1>6. /\ e + 0 = e /\ e + 1 - 1 = e /\ e + 2 - 1 = e + 1
      /\ 1 \in 1 .. 1 /\ 1 \in 1 .. 2 /\ 2 \in 1 .. 2
  BY <1>1
<1>7. j = <<>> => Begin(k + 1) = e
  BY <1>2, <1>5, <1>6
<1>8. j = <<c>> => Begin(k + 1) = e + 1 /\ Token(e) = c
  BY <1>2, <1>5, <1>6
<1>9. j = <<c, c>> => Token(e) = c /\ Token(e + 1) = c
  BY <1>2, <1>5, <1>6
<1>10. k < n => k # n
  BY <1>4
<1> QED BY <1>2, <1>3, <1>7, <1>8, <1>9, <1>10 DEF n, e, c

(* Neither parentheses nor `=` follow an item. *)
LEMMA AfterFact ==
  ASSUME src \in Inputs, src.style # "leading", NEW k \in 1 .. Len(src.items)
  PROVE  Token(Past(k)).kind \notin {"paren", "="}
<1>1. CASE k < Len(src.items) /\ src.style = "missing"
  <2>1. k + 1 \in 1 .. Len(src.items)
    BY <1>1, InputFact
  <2>2. Past(k) = Begin(k + 1)
    BY <1>1, PastFact
  <2>3. CASE src.items[k + 1].name = ""
    <3>1. Token(Begin(k + 1)) = src.items[k + 1].value[1]
      BY <2>1, <2>3, ItemFact DEF ValueAt
    <3>2. src.items[k + 1].value[1].kind \in {"path", "str", "int"}
      BY <2>1, InputFact
    <3> QED BY <2>2, <3>1, <3>2
  <2>4. CASE src.items[k + 1].name # ""
    <3>1. Token(Begin(k + 1)) = Path(src.items[k + 1].name)
      BY <2>1, <2>4, ItemFact
    <3> QED BY <2>2, <3>1 DEF Path
  <2> QED BY <2>3, <2>4
<1>2. CASE ~(k < Len(src.items) /\ src.style = "missing")
  <2>1. \/ k = Len(src.items)
        \/ k < Len(src.items) /\ src.style \in {"plain", "trailing", "double"}
    BY <1>2, InputFact
  <2>2. Token(Past(k)) = Punct(",") \/ AtEnd(Past(k))
    BY <2>1, PastFact
  <2>3. Punct(",").kind = "," /\ (AtEnd(Past(k)) => Token(Past(k)).kind = "end")
    BY DEF Punct, AtEnd
  <2>4. Token(Past(k)).kind \in {",", "end"}
    BY <2>2, <2>3
  <2> QED BY <2>4
<1> QED BY <1>1, <1>2

(* The types of the settings, and those that may go without a name. *)
LEMMA AttrFact ==
  /\ Attrs \subseteq DOMAIN Empty /\ "nothing" \notin Attrs
  /\ DOMAIN Empty = {"server", "thread", "name", "timeout"}
  /\ \A a \in Attrs : AttrType[a] \in {"selector", "str", "int"}
  /\ Len(Order) \in {1, 2}
  /\ \A i \in 1 .. Len(Order) : Order[i] \in Attrs
  /\ \A i, l \in 1 .. Len(Order) : Order[i] = Order[l] => i = l
<1>1. DOMAIN Empty = {"server", "thread", "name", "timeout"}
  BY DEF Empty
<1>2. CASE src.of = "ForwardConfig"
  <2>1. Order = <<"server", "thread">> /\ Attrs = {"server", "thread", "name", "timeout"}
    BY <1>2 DEF Order, Attrs, AttrType
  <2>2. /\ AttrType["server"] = "selector" /\ AttrType["thread"] = "selector"
        /\ AttrType["name"] = "str" /\ AttrType["timeout"] = "int"
    BY <1>2 DEF AttrType
  <2> QED BY <1>1, <2>1, <2>2
<1>3. CASE src.of # "ForwardConfig"
  <2>1. Order = <<"name">> /\ Attrs = {"name"} /\ AttrType["name"] = "str"
    BY <1>3 DEF Order, Attrs, AttrType
  <2> QED BY <1>1, <2>1
<1> QED BY <1>2, <1>3

(* A value that fits its setting is read to its end, and one that does not *)
(* is refused or leaves its parentheses.                                   *)
LEMMA ParsedFact ==
  ASSUME src \in Inputs, src.style # "leading", NEW k \in 1 .. Len(src.items),
         NEW type \in {"selector", "str", "int"}
  PROVE  LET v == src.items[k].value
             r == Parsed(type, ValueAt(k))
         IN  /\ Fits(v, type) => r.ok /\ r.val = Meaning(v) /\ r.next = Past(k)
             /\ ~Fits(v, type) => ~r.ok \/ Token(r.next).kind = "paren"
             /\ Meaning(v) # None
<1> DEFINE v == src.items[k].value
           q == ValueAt(k)
<1>1. /\ Len(v) \in {1, 2} /\ v[1].of # "none" /\ (Len(v) = 2 => v[2].kind = "paren")
  BY InputFact
<1>2. Token(q) = v[1] /\ (Len(v) = 2 => Token(q + 1) = v[2]) /\ Past(k) = q + Len(v) /\ q \in Nat
  BY ItemFact DEF Past
<1>3. Len(v) = 1 => Token(q + 1).kind # "paren"
  BY <1>2, AfterFact
<1> HIDE DEF v, q
<1>4. Meaning(v) # None
  BY <1>1 DEF Meaning, None
<1> DEFINE r == Parsed(type, q)
<1>5. /\ Fits(v, type) => r.ok /\ r.val = Meaning(v) /\ r.next = Past(k)
      /\ ~Fits(v, type) => ~r.ok \/ Token(r.next).kind = "paren"
  <2>0. ASSUME Len(v) = 1
        PROVE  /\ Past(k) = q + 1 /\ Meaning(v) = [path |-> v[1].of, sel |-> ""]
               /\ Fits(v, type) <=> v[1].kind = IF type = "selector" THEN "path" ELSE type
    <3>1. Past(k) = q + 1
      BY <1>2, <2>0
    <3>2. Len(v) # 2
      BY <2>0
    <3>3. Meaning(v) = [path |-> v[1].of, sel |-> ""]
      BY <3>2 DEF Meaning
    <3>4. Fits(v, type) <=> v[1].kind = IF type = "selector" THEN "path" ELSE type
      BY <2>0, <3>2 DEF Fits
    <3> QED BY <3>1, <3>3, <3>4
  <2>1. CASE type = "selector" /\ Len(v) = 1
    <3>1. /\ r.ok <=> Token(q).kind = "path"
          /\ r.val = [path |-> Token(q).of, sel |-> ""] /\ r.next = q + 1
      BY <1>3, <2>1 DEF Parsed
    <3> HIDE DEF r
    <3> QED BY <1>2, <2>0, <2>1, <3>1
  <2>2. CASE type = "selector" /\ Len(v) = 2
    BY <1>1, <1>2, <2>2 DEF Parsed, Fits, Meaning
  <2>3. CASE type # "selector" /\ Len(v) = 1
    <3>1. /\ r.ok <=> Token(q).kind = type
          /\ r.val = [path |-> Token(q).of, sel |-> ""] /\ r.next = q + 1
      BY <2>3 DEF Parsed
    <3> HIDE DEF r
    <3> QED BY <1>2, <2>0, <2>3, <3>1
  <2>4. CASE type # "selector" /\ Len(v) = 2
    BY <1>1, <1>2, <2>4 DEF Parsed, Fits, Meaning
  <2> QED BY <1>1, <2>1, <2>2, <2>3, <2>4
<1> QED BY <1>4, <1>5 DEF v, q

-----------------------------------------------------------------------------
(* The steps of the parser *)

(* Where an item is among the items. *)
LEMMA RangeFact ==
  ASSUME NEW n \in Nat, NEW k \in 1 .. n
  PROVE  /\ n # 0 /\ n > 0 /\ (n > 1 => n # 1)
         /\ k > 0 /\ k \in Nat /\ k \in 1 .. k /\ k - 1 \in Nat
         /\ \A i \in 1 .. k : (i = k \/ i \in 1 .. k - 1) /\ i \in 1 .. n /\ ~(k < i)
         /\ \A i \in 1 .. k - 1 : i \in 1 .. k /\ i \in 1 .. n /\ i # k /\ i < k
         /\ k = n \/ (k < n /\ k + 1 \in 1 .. n /\ (k + 1) - 1 = k)
OBVIOUS

(* Where it is among the settings that go without a name. *)
LEMMA PlaceFact ==
  ASSUME NEW n \in {1, 2}, NEW k \in Nat, k > 0, k - 1 < n
  PROVE  /\ (k - 1) + 1 = k /\ k \in 1 .. n /\ k <= n
         /\ \A i \in 1 .. k : i \in 1 .. n /\ i <= n
OBVIOUS

(* One item is enough to spoil an attribute. *)
LEMMA SpoiltFact ==
  ASSUME src \in Inputs, src.form = "list", NEW k \in 1 .. Len(src.items),
         \/ src.style \notin {"plain", "trailing"}
         \/ Target(k) \notin Attrs
         \/ ~Fits(src.items[k].value, AttrType[Target(k)])
         \/ \E i \in 1 .. Len(src.items) : i # k /\ Target(i) = Target(k)
         \/ src.items[k].name = "" /\ src.items[k].value[1].kind # "path"
         \/ src.items[k].name = "" /\ \E i \in 1 .. Len(src.items) : i < k /\ src.items[i].name # ""
  PROVE  ~Readable
<1>1. DOMAIN src.items = 1 .. Len(src.items)
  BY InputFact
<1>2. src.items # <<>>
  <2>1. Len(<<>>) = 0
    OBVIOUS
  <2>2. Len(src.items) # 0
    BY InputFact, RangeFact, Zenon
  <2> QED BY <2>1, <2>2
<1> QED BY <1>1, <1>2, Zenon DEF Readable, WellFormed, Allowed, Refused

(* An attribute whose items are all accepted is readable, and its          *)
(* settings are what was read.                                             *)
LEMMA CompleteFact ==
  ASSUME src \in Inputs, src.form = "list", src.style \in {"plain", "trailing"},
         Len(src.items) > 0, Accepted(Len(src.items)), Read(Len(src.items))
  PROVE  Readable /\ conf = Settings
<1>1. DOMAIN src.items = 1 .. Len(src.items)
  BY InputFact
<1>2. src.items # <<>>
  <2>1. Len(<<>>) = 0
    OBVIOUS
  <2> QED BY <2>1
<1>3. Readable
  <2>1. \A i \in DOMAIN src.items : ~NoTimeout(i)
    <3> SUFFICES ASSUME NEW i \in DOMAIN src.items, NoTimeout(i) PROVE FALSE
      OBVIOUS
    <3>1. Target(i) \in Attrs /\ Fits(src.items[i].value, AttrType[Target(i)])
      BY <1>1 DEF Accepted
    <3>2. Target(i) = "timeout" /\ src.items[i].value[1].kind = "path"
      BY DEF NoTimeout, Path
    <3>3. AttrType[Target(i)] = "int"
      BY <3>1, <3>2 DEF Attrs, AttrType
    <3> QED BY <3>1, <3>2, <3>3 DEF Fits
  <2> QED BY <1>1, <1>2, <2>1, Zenon DEF Readable, WellFormed, Allowed, Refused, Accepted
<1>4. \A a \in DOMAIN Empty : conf[a] = Settings[a]
  <2> SUFFICES ASSUME NEW a \in DOMAIN Empty PROVE conf[a] = Settings[a]
    OBVIOUS
  <2>1. CASE \E i \in DOMAIN src.items : Target(i) = a
    <3> DEFINE c == CHOOSE i \in DOMAIN src.items : Target(i) = a
    <3>1. c \in 1 .. Len(src.items) /\ Target(c) = a
      BY <1>1, <2>1
    <3>2. Settings[a] = Meaning(src.items[c].value)
      BY <2>1 DEF Settings
    <3> HIDE DEF c
    <3> QED BY <3>1, <3>2 DEF Read
  <2>2. CASE ~\E i \in DOMAIN src.items : Target(i) = a
    BY <1>1, <2>2 DEF Settings, Read
  <2> QED BY <2>1, <2>2
<1>5. Settings = [a \in DOMAIN Empty |-> Settings[a]]
  BY DEF Settings
<1>6. conf = [a \in DOMAIN Empty |-> conf[a]]
  BY DEF Read
<1> HIDE DEF Settings
<1> QED BY <1>3, <1>4, <1>5, <1>6

(* What an attribute means does not change while it is read. *)
LEMMA SameSource ==
  ASSUME src' = src
  PROVE  /\ (Readable' <=> Readable) /\ Settings' = Settings
         /\ \A i : Target(i)' = Target(i) /\ Begin(i)' = Begin(i) /\ Past(i)' = Past(i)
         /\ \A i : (Accepted(i)' <=> Accepted(i)) /\ (Reached(i)' <=> Reached(i))
         /\ \A p : Token(p)' = Token(p)
         /\ Attrs' = Attrs /\ AttrType' = AttrType /\ Order' = Order
BY DEF Readable, WellFormed, Allowed, Refused, NoTimeout, Settings, Target, Begin, ValueAt, Past,
   Accepted, Reached, Token, Attrs, AttrType, Order

(* An item that is accepted after the others is one of the settings. *)
LEMMA UptoStep ==
  ASSUME src \in Inputs, src' = src, NEW k \in 1 .. Len(src.items), Upto(k - 1),
         Target(k) \in Attrs, Fits(src.items[k].value, AttrType[Target(k)]),
         \A i \in 1 .. k - 1 : Target(i) # Target(k),
         src.items[k].name = "" => /\ src.items[k].value[1].kind = "path"
                                   /\ \A i \in 1 .. k - 1 : src.items[i].name = "",
         conf' = [conf EXCEPT ![Target(k)] = Meaning(src.items[k].value)],
         Counted(k)'
  PROVE  Upto(k)'
<1>0. Len(src.items) \in Nat
  BY InputFact
<1>1. k \in Nat /\ \A i \in 1 .. k : i = k \/ i \in 1 .. k - 1
  BY <1>0, RangeFact, Zenon
<1>2. \A i \in 1 .. k - 1 : i \in 1 .. k /\ i # k /\ i < k
  BY <1>0, RangeFact, Zenon
<1>3. \A i \in 1 .. k : ~(k < i)
  BY <1>0, RangeFact, Zenon
<1>4. Accepted(k)
  BY <1>1, <1>2, <1>3 DEF Upto, Accepted
<1>5. Read(k)'
  <2>1. Target(k) \in DOMAIN Empty
    BY AttrFact
  <2>2. conf = [a \in DOMAIN Empty |-> conf[a]]
    BY DEF Upto, Read
  <2>3. /\ conf' = [a \in DOMAIN Empty |-> conf'[a]]
        /\ conf'[Target(k)] = Meaning(src.items[k].value)
        /\ \A a \in DOMAIN Empty : a # Target(k) => conf'[a] = conf[a]
    BY <2>1, <2>2
  <2>4. \A i \in 1 .. k - 1 : Target(i) \in DOMAIN Empty
    BY AttrFact DEF Upto, Accepted
  <2>5. \A i \in 1 .. k : conf'[Target(i)] = Meaning(src.items[i].value)
    BY <1>1, <2>3, <2>4 DEF Upto, Read
  <2>6. \A a \in DOMAIN Empty : (\A i \in 1 .. k : Target(i) # a) => conf'[a] = None
    <3>1. k \in 1 .. k
      BY <1>0, RangeFact, Zenon
    <3> QED BY <1>2, <2>3, <3>1 DEF Upto, Read
  <2>7. DOMAIN Empty' = DOMAIN Empty /\ None' = None
    BY DEF Empty, None
  <2>8. \A i : Target(i)' = Target(i)
    BY SameSource
  <2>9. \A x : Meaning(x)' = Meaning(x)
    BY DEF Meaning
  <2> HIDE DEF Empty, None
  <2> QED BY <2>3, <2>5, <2>6, <2>8 DEF Read
<1> QED BY <1>4, <1>5, SameSource DEF Upto

(* What the parser looks for is a name or a value where the item begins. *)
LEMMA NameFact ==
  ASSUME src \in Inputs, src.style # "leading", NEW k \in 1 .. Len(src.items)
  PROVE  /\ Token(Begin(k)).kind \notin {",", "end"}
         /\ src.items[k].name # "" =>
              /\ Token(Begin(k)).kind = "path" /\ Token(Begin(k)).of = src.items[k].name
              /\ Token(Begin(k) + 1).kind = "=" /\ ValueAt(k) = Begin(k) + 2
              /\ Target(k) = src.items[k].name
         /\ src.items[k].name = "" =>
              /\ Token(Begin(k)) = src.items[k].value[1] /\ Token(Begin(k) + 1).kind # "="
              /\ ValueAt(k) = Begin(k)
              /\ Target(k) = IF k <= Len(Order) THEN Order[k] ELSE "nothing"
<1>1. CASE src.items[k].name # ""
  <2>1. Token(Begin(k)) = Path(src.items[k].name) /\ Token(Begin(k) + 1) = Punct("=")
    BY <1>1, ItemFact
  <2>2. ValueAt(k) = Begin(k) + 2 /\ Target(k) = src.items[k].name
    BY <1>1 DEF ValueAt, Target
  <2>3. Path(src.items[k].name).kind = "path" /\ Path(src.items[k].name).of = src.items[k].name
    BY DEF Path
  <2>4. Punct("=").kind = "="
    BY DEF Punct
  <2> QED BY <1>1, <2>1, <2>2, <2>3, <2>4
<1>2. CASE src.items[k].name = ""
  <2> DEFINE v == src.items[k].value
  <2>1. ValueAt(k) = Begin(k) /\ Target(k) = IF k <= Len(Order) THEN Order[k] ELSE "nothing"
    BY <1>2 DEF ValueAt, Target
  <2>2. Token(Begin(k)) = v[1] /\ (Len(v) = 2 => Token(Begin(k) + 1) = v[2])
    BY <2>1, ItemFact
  <2>3. /\ Len(v) \in {1, 2} /\ v[1].kind \in {"path", "str", "int"}
        /\ Len(v) = 2 => v[2].kind = "paren"
    BY InputFact
  <2>4. Len(v) = 1 => Past(k) = Begin(k) + 1
    BY <2>1 DEF Past
  <2>5. Token(Past(k)).kind # "="
    BY AfterFact
  <2> HIDE DEF v
  <2>6. Token(Begin(k) + 1).kind # "="
    BY <2>2, <2>3, <2>4, <2>5
  <2> QED BY <1>2, <2>1, <2>2, <2>3, <2>6 DEF v
<1> QED BY <1>1, <1>2

(* A setting is set if and only if an item before this one set it. *)
LEMMA UsedFact ==
  ASSUME src \in Inputs, src.style # "leading", NEW k \in 1 .. Len(src.items), Upto(k - 1),
         NEW a \in Attrs
  PROVE  conf[a] = None <=> \A i \in 1 .. k - 1 : Target(i) # a
<1>1. Len(src.items) \in Nat
  BY InputFact
<1>2. \A i \in 1 .. k - 1 : i \in 1 .. Len(src.items)
  BY <1>1, RangeFact, Zenon
<1>3. \A i \in 1 .. k - 1 : Meaning(src.items[i].value) # None
  <2>1. "str" \in {"selector", "str", "int"}
    OBVIOUS
  <2> QED BY <1>2, <2>1, ParsedFact
<1>4. a \in DOMAIN Empty
  BY AttrFact
<1>5. \A i \in 1 .. k - 1 : conf[Target(i)] = Meaning(src.items[i].value)
  BY DEF Upto, Read
<1>6. (\A i \in 1 .. k - 1 : Target(i) # a) => conf[a] = None
  BY <1>4 DEF Upto, Read
<1> QED BY <1>3, <1>5, <1>6, Zenon

(* The parser stops with an error, *)
LEMMA ErrorFact ==
  ASSUME MacroInv, ~Readable, Stop("error")
  PROVE  MacroInv'
BY SameSource DEF MacroInv, Stop

(* is done, *)
LEMMA OkFact ==
  ASSUME MacroInv, Readable, conf = Settings, UNCHANGED <<src, conf, named>>, res' = "ok"
  PROVE  MacroInv'
BY SameSource DEF MacroInv

(* or behind an item that it accepts or has not read to its end. *)
LEMMA BehindFact ==
  ASSUME MacroInv, src.form = "list", src' = src, named' \in BOOLEAN, res' = "separator",
         \/ Token(pos').kind \notin {",", "end"} /\ ~Readable
         \/ \E k \in 1 .. Len(src.items) : pos' = Past(k) /\ Reached(k) /\ Upto(k)'
  PROVE  MacroInv'
<1>1. \/ (Token(pos).kind)' \notin {",", "end"} /\ ~Readable'
      \/ (\E k \in 1 .. Len(src.items) : pos = Past(k) /\ Reached(k) /\ Upto(k))'
  BY SameSource DEF Token
<1> QED BY <1>1 DEF MacroInv

(* Or it is at an item, which may turn out to be a comma. *)
LEMMA AheadFact ==
  ASSUME MacroInv, src.form = "list", UNCHANGED <<src, conf, index, named>>, res' = "item",
         \/ Token(pos').kind = "," /\ ~Readable
         \/ \E k \in 1 .. Len(src.items) : pos' = Begin(k) /\ Reached(k) /\ Upto(k - 1)
  PROVE  MacroInv'
<1>1. \A k : Upto(k)' <=> Upto(k)
  <2>1. \A k : Accepted(k)' <=> Accepted(k)
    BY SameSource
  <2>2. \A k : Read(k)' <=> Read(k)
    BY DEF Read, Target, Order
  <2>3. \A k : Counted(k)' <=> Counted(k)
    BY DEF Counted, Order
  <2> QED BY <2>1, <2>2, <2>3 DEF Upto
<1>2. \/ (Token(pos).kind)' = "," /\ ~Readable'
      \/ (\E k \in 1 .. Len(src.items) : pos = Begin(k) /\ Reached(k) /\ Upto(k - 1))'
  BY <1>1, SameSource DEF Token
<1> QED BY <1>2 DEF MacroInv

(* An item that is accepted leaves the parser behind it. *)
LEMMA AcceptStep ==
  ASSUME MacroInv, src.form = "list", src' = src, NEW k \in 1 .. Len(src.items),
         Reached(k), Upto(k - 1),
         Target(k) \in Attrs, Fits(src.items[k].value, AttrType[Target(k)]), conf[Target(k)] = None,
         src.items[k].name = "" => /\ src.items[k].value[1].kind = "path"
                                   /\ \A i \in 1 .. k - 1 : src.items[i].name = "",
         conf' = [conf EXCEPT ![Target(k)] = Meaning(src.items[k].value)],
         Counted(k)', named' \in BOOLEAN, pos' = Past(k), res' = "separator"
  PROVE  MacroInv'
<1>1. src \in Inputs /\ src.style # "leading"
  BY DEF MacroInv, Reached
<1>2. \A i \in 1 .. k - 1 : Target(i) # Target(k)
  BY <1>1, UsedFact
<1>3. Upto(k)'
  BY <1>1, <1>2, UptoStep
<1> QED BY <1>3, BehindFact

(* An item whose value does not fit ends in an error or on parentheses. *)
LEMMA MisfitStep ==
  ASSUME MacroInv, src.form = "list", src' = src, ~Readable, NEW r,
         ~r.ok \/ Token(r.next).kind = "paren",
         \/ r.ok /\ pos' = r.next /\ named' \in BOOLEAN /\ res' = "separator"
         \/ Stop("error")
  PROVE  MacroInv'
<1>1. CASE r.ok /\ pos' = r.next /\ named' \in BOOLEAN /\ res' = "separator"
  <2>1. Token(pos').kind \notin {",", "end"}
    BY <1>1
  <2> QED BY <1>1, <2>1, BehindFact
<1>2. CASE Stop("error")
  BY <1>2, ErrorFact
<1> QED BY <1>1, <1>2

(* The attribute is seen for the first time. *)
LEMMA AttributeStep ==
  ASSUME MacroInv, Attribute
  PROVE  MacroInv'
<1>1. src \in Inputs /\ pos = 1 /\ conf = Empty /\ index = 0 /\ ~named
  BY DEF MacroInv, Attribute
<1>2. Len(src.items) \in Nat /\ DOMAIN src.items = 1 .. Len(src.items)
  BY <1>1, InputFact
<1>3. CASE src.form \in {"absent", "path"}
  <2>1. Readable
    BY <1>3 DEF Readable, WellFormed, Refused
  <2>2. src.form # "list"
    BY <1>3
  <2>3. conf = Settings
    BY <1>1, <2>2 DEF Settings, Empty
  <2>4. Stop("ok")
    BY <1>3 DEF Attribute
  <2> QED BY <2>1, <2>3, <2>4, OkFact DEF Stop
<1>4. CASE src.form = "name_value"
  <2>1. ~Readable
    BY <1>4 DEF Readable, WellFormed, Refused
  <2>2. Stop("error")
    BY <1>4 DEF Attribute
  <2> QED BY <2>1, <2>2, ErrorFact
<1>5. CASE src.form = "list" /\ src.style = "leading"
  <2>1. Token(1).kind = ","
    <3>1. Token(1) = Punct(",")
      BY <1>1, <1>5, LeadFact
    <3>2. Punct(",").kind = ","
      BY DEF Punct
    <3> QED BY <3>1, <3>2
  <2>2. ~Readable
    BY <1>5 DEF Readable, WellFormed, Refused
  <2>3. ~AtEnd(1)
    BY <2>1 DEF AtEnd
  <2>4. Stop("item")
    BY <1>5, <2>3 DEF Attribute
  <2>5. UNCHANGED <<src, conf, index, named>> /\ res' = "item" /\ pos' = pos
    BY <2>4 DEF Stop
  <2> QED BY <1>1, <1>5, <2>1, <2>2, <2>5, AheadFact
<1>6. CASE src.form = "list" /\ src.style # "leading" /\ Len(src.items) = 0
  <2>1. src.items = <<>> /\ src.style = "plain"
    <3>1. ~(Len(src.items) > 0) /\ ~(Len(src.items) > 1)
      BY <1>6
    <3>2. src.style = "plain"
      BY <1>1, <1>6, <3>1, InputFact
    <3>3. src.items \in Seq(ToSet(src.items))
      BY <1>1, InputAssumption
    <3>4. src.items = <<>>
      BY <1>6, <3>3
    <3> QED BY <3>2, <3>4
  <2>2. Readable
    BY <1>6, <2>1 DEF Readable, WellFormed, Refused
  <2>3. DOMAIN src.items = {}
    BY <2>1
  <2>4. conf = Settings
    BY <1>1, <2>3 DEF Settings, Empty
  <2>5. AtEnd(1)
    <3>1. Laid(src, Starts(src))
      BY <1>1, <1>6, LaidFact DEF Starts
    <3>2. Tokens(src) \in Seq(Tok(src))
      BY <1>1, <1>6, LaidFact
    <3>3. Len(Tokens(src)) \in Nat /\ 1 = Len(Tokens(src)) + 1
      BY <1>6, <3>1, <3>2 DEF Laid
    <3>4. ~(1 <= Len(Tokens(src)))
      BY <3>3
    <3> QED BY <3>4 DEF AtEnd, Token, Punct
  <2>6. Stop("ok")
    BY <1>6, <2>5 DEF Attribute
  <2> QED BY <2>2, <2>4, <2>6, OkFact DEF Stop
<1>7. CASE src.form = "list" /\ src.style # "leading" /\ Len(src.items) # 0
  <2>1. 1 \in 1 .. Len(src.items)
    BY <1>2, <1>7
  <2>2. Begin(1) = 1
    <3>1. Laid(src, Starts(src))
      BY <1>1, <1>7, LaidFact DEF Starts
    <3> QED BY <3>1 DEF Laid, Begin
  <2>3. ~AtEnd(1)
    BY <1>1, <1>7, <2>1, <2>2, NameFact DEF AtEnd
  <2>4. Stop("item")
    BY <1>7, <2>3 DEF Attribute
  <2>5. UNCHANGED <<src, conf, index, named>> /\ res' = "item" /\ pos' = pos
    BY <2>4 DEF Stop
  <2>6. Upto(0)
    <3>1. \A i : i \notin 1 .. 0
      OBVIOUS
    <3>2. 0 < Len(Order)
      BY AttrFact
    <3>3. \A a \in DOMAIN Empty : conf[a] = None
      BY <1>1 DEF Empty
    <3>4. conf = [a \in DOMAIN Empty |-> conf[a]]
      BY <1>1 DEF Empty
    <3> QED BY <1>1, <3>1, <3>2, <3>3, <3>4 DEF Upto, Accepted, Read, Counted
  <2>7. Reached(1) /\ 1 - 1 = 0
    BY <1>7 DEF Reached
  <2> QED BY <1>1, <1>7, <2>1, <2>2, <2>5, <2>6, <2>7, AheadFact
<1> QED BY <1>1, <1>3, <1>4, <1>5, <1>6, <1>7, InputFact

(* Where the parser is when it reads an item. *)
LEMMA AtItem ==
  ASSUME MacroInv, res = "item", Token(pos).kind # ","
  PROVE  /\ src \in Inputs /\ src.form = "list" /\ src.style # "leading" /\ Len(src.items) \in Nat
         /\ named \in BOOLEAN
         /\ \E k \in 1 .. Len(src.items) : pos = Begin(k) /\ Reached(k) /\ Upto(k - 1)
BY InputFact DEF MacroInv, Reached

(* An item with a name. *)
LEMMA NamedItemStep ==
  ASSUME MacroInv, NamedItem
  PROVE  MacroInv'
<1>1. /\ src \in Inputs /\ src.form = "list" /\ src.style # "leading" /\ Len(src.items) \in Nat
      /\ \E k \in 1 .. Len(src.items) : pos = Begin(k) /\ Reached(k) /\ Upto(k - 1)
  BY AtItem DEF NamedItem
<1>2. PICK k \in 1 .. Len(src.items) : pos = Begin(k) /\ Reached(k) /\ Upto(k - 1)
  BY <1>1
<1> DEFINE a == Target(k)
           r == Parsed(AttrType[a], ValueAt(k))
           v == src.items[k].value
<1>3. src.items[k].name # ""
  BY <1>1, <1>2, NameFact DEF NamedItem, HasName
<1>4. Token(pos).of = a /\ ValueAt(k) = pos + 2 /\ a \in Attrs
  BY <1>1, <1>2, <1>3, NameFact DEF NamedItem, HasName
<1>5. AttrType[a] \in {"selector", "str", "int"}
  BY <1>4, AttrFact
<1>6. SetNamed(a, r)
  BY <1>4 DEF NamedItem
<1>7. /\ Fits(v, AttrType[a]) => r.ok /\ r.val = Meaning(v) /\ r.next = Past(k)
      /\ ~Fits(v, AttrType[a]) => ~r.ok \/ Token(r.next).kind = "paren"
  BY <1>1, <1>5, ParsedFact
<1> HIDE DEF r, a, v
<1>8. CASE Fits(v, AttrType[a]) /\ conf[a] = None
  <2>1. /\ conf' = [conf EXCEPT ![a] = Meaning(v)] /\ pos' = Past(k) /\ named' = TRUE
        /\ res' = "separator" /\ src' = src
    BY <1>6, <1>7, <1>8 DEF SetNamed
  <2>2. k \in 1 .. k
    BY <1>1, RangeFact, Zenon
  <2>3. Counted(k)'
    BY <1>3, <2>1, <2>2 DEF Counted
  <2> QED BY <1>1, <1>2, <1>3, <1>4, <1>8, <2>1, <2>3, AcceptStep DEF a, v
<1>9. CASE ~Fits(v, AttrType[a])
  <2>1. ~Readable
    BY <1>1, <1>9, SpoiltFact DEF a, v
  <2>2. \/ r.ok /\ pos' = r.next /\ named' \in BOOLEAN /\ res' = "separator"
        \/ Stop("error")
    BY <1>6 DEF SetNamed
  <2>3. src' = src
    BY <1>6 DEF SetNamed, Stop
  <2> QED BY <1>1, <1>7, <1>9, <2>1, <2>2, <2>3, MisfitStep
<1>10. CASE conf[a] # None
  <2>1. PICK i \in 1 .. k - 1 : Target(i) = a
    BY <1>1, <1>2, <1>4, <1>10, UsedFact
  <2>2. i \in 1 .. Len(src.items) /\ i # k
    BY <1>1, RangeFact, Zenon
  <2>3. ~Readable
    BY <1>1, <2>1, <2>2, SpoiltFact DEF a
  <2>4. Stop("error")
    BY <1>6, <1>10 DEF SetNamed
  <2> QED BY <2>3, <2>4, ErrorFact
<1> QED BY <1>8, <1>9, <1>10

(* An item without a name, while names are not required. *)
LEMMA ElidedItemStep ==
  ASSUME MacroInv, ElidedItem
  PROVE  MacroInv'
<1>1. /\ src \in Inputs /\ src.form = "list" /\ src.style # "leading" /\ Len(src.items) \in Nat
      /\ \E k \in 1 .. Len(src.items) : pos = Begin(k) /\ Reached(k) /\ Upto(k - 1)
  BY AtItem DEF ElidedItem
<1>2. PICK k \in 1 .. Len(src.items) : pos = Begin(k) /\ Reached(k) /\ Upto(k - 1)
  BY <1>1
<1> DEFINE a == Order[k]
           r == Parsed(AttrType[a], pos)
           v == src.items[k].value
<1>3. Token(pos).kind = "path" /\ ~HasName /\ ~named
  BY DEF ElidedItem
<1>4. /\ index = k - 1 /\ k - 1 < Len(Order)
      /\ \A i \in 1 .. k - 1 : src.items[i].name = ""
  BY <1>2, <1>3 DEF Upto, Counted
<1>5. PICK n \in {1, 2} : n = Len(Order)
  BY AttrFact
<1>6. k \in Nat /\ \A i \in 1 .. k - 1 : i \in 1 .. Len(src.items) /\ i \in 1 .. k /\ i # k
  BY <1>1, RangeFact, Zenon
<1>7. /\ index + 1 = k /\ k \in 1 .. Len(Order) /\ k <= Len(Order)
      /\ \A i \in 1 .. k : i \in 1 .. Len(Order) /\ i <= Len(Order)
  <2>1. k > 0
    BY <1>1, RangeFact, Zenon
  <2>2. k - 1 < n
    BY <1>4, <1>5
  <2>3. /\ (k - 1) + 1 = k /\ k \in 1 .. n /\ k <= n
        /\ \A i \in 1 .. k : i \in 1 .. n /\ i <= n
    BY <1>6, <2>1, <2>2, PlaceFact, Zenon
  <2> QED BY <1>4, <1>5, <2>3, Zenon
<1>8. a \in Attrs /\ AttrType[a] \in {"selector", "str", "int"}
  BY <1>7, AttrFact
<1>9. conf[a] = None
  <2>1. \A i \in 1 .. k - 1 : Target(i) = Order[i]
    BY <1>1, <1>4, <1>6, <1>7, NameFact
  <2>2. \A i \in 1 .. k - 1 : Order[i] # a
    BY <1>6, <1>7, AttrFact
  <2> HIDE DEF a
  <2> QED BY <1>1, <1>2, <1>8, <2>1, <2>2, UsedFact
<1>10. \/ /\ r.ok /\ conf' = [conf EXCEPT ![a] = r.val] /\ pos' = r.next /\ index' = k
          /\ named' = (k = Len(Order)) /\ res' = "separator" /\ src' = src
       \/ ~r.ok /\ Stop("error")
  BY <1>7, <1>9 DEF ElidedItem
<1>11. src' = src
  BY <1>10 DEF Stop
<1>12. CASE src.items[k].name # ""
  <2>1. src.items[k].name \notin Attrs /\ Token(pos + 1).kind = "="
    BY <1>1, <1>2, <1>3, <1>12, NameFact DEF HasName
  <2>2. Target(k) \notin Attrs
    BY <1>1, <1>12, <2>1, NameFact
  <2>3. ~Readable
    BY <1>1, <2>2, SpoiltFact
  <2>4. r.next = pos + 1
    BY <2>1 DEF Parsed
  <2> HIDE DEF r
  <2>5. CASE pos' = r.next /\ named' = (k = Len(Order)) /\ res' = "separator" /\ src' = src
    <3>1. Token(pos').kind \notin {",", "end"}
      BY <2>1, <2>4, <2>5
    <3>2. named' \in BOOLEAN
      BY <2>5
    <3> QED BY <1>1, <2>3, <2>5, <3>1, <3>2, BehindFact
  <2>6. CASE Stop("error")
    BY <2>3, <2>6, ErrorFact
  <2> QED BY <1>10, <2>5, <2>6
<1>13. CASE src.items[k].name = ""
  <2>1. Target(k) = a /\ ValueAt(k) = pos /\ Token(pos) = v[1]
    BY <1>1, <1>2, <1>7, <1>13, NameFact
  <2>2. /\ Fits(v, AttrType[a]) => r.ok /\ r.val = Meaning(v) /\ r.next = Past(k)
        /\ ~Fits(v, AttrType[a]) => ~r.ok \/ Token(r.next).kind = "paren"
    BY <1>1, <1>8, <2>1, ParsedFact
  <2> HIDE DEF r, a, v
  <2>3. CASE Fits(v, AttrType[a])
    <3>1. /\ conf' = [conf EXCEPT ![a] = Meaning(v)] /\ pos' = Past(k) /\ index' = k
          /\ named' = (k = Len(Order)) /\ res' = "separator" /\ src' = src
      BY <1>10, <2>2, <2>3
    <3>2. Order' = Order
      BY <3>1, SameSource
    <3>3. \A i \in 1 .. k : src.items[i].name = ""
      <4>1. \A i \in 1 .. k : i = k \/ i \in 1 .. k - 1
        BY <1>1, RangeFact, Zenon
      <4> QED BY <1>4, <1>13, <4>1
    <3>4. k = Len(Order) \/ k < Len(Order)
      BY <1>5, <1>6, <1>7
    <3>5. k = Len(Order) => k >= Len(Order)
      BY <1>5
    <3>6. k < Len(Order) => k # Len(Order)
      BY <1>5, <1>6
    <3>7. Counted(k)'
      BY <3>1, <3>2, <3>3, <3>4, <3>5, <3>6 DEF Counted
    <3>8. named' \in BOOLEAN
      BY <3>1
    <3>9. v[1].kind = "path"
      BY <1>3, <2>1
    <3> QED BY <1>1, <1>2, <1>4, <1>8, <1>9, <2>1, <2>3, <3>1, <3>7, <3>8, <3>9, AcceptStep DEF v
  <2>4. CASE ~Fits(v, AttrType[a])
    <3>1. ~Readable
      BY <1>1, <2>1, <2>4, SpoiltFact DEF v
    <3>2. \/ r.ok /\ pos' = r.next /\ named' \in BOOLEAN /\ res' = "separator"
          \/ Stop("error")
      BY <1>10
    <3> QED BY <1>1, <1>11, <2>2, <2>4, <3>1, <3>2, MisfitStep
  <2> QED BY <2>3, <2>4
<1> QED BY <1>12, <1>13

(* An item that is refused for how it begins. *)
LEMMA BadItemStep ==
  ASSUME MacroInv, BadItem
  PROVE  MacroInv'
<1>1. Stop("error")
  BY DEF BadItem
<1>2. CASE ~Readable
  BY <1>1, <1>2, ErrorFact
<1>3. CASE Readable
  <2>1. /\ src \in Inputs /\ src.form = "list" /\ src.style # "leading" /\ Len(src.items) \in Nat
        /\ named \in BOOLEAN
        /\ \E k \in 1 .. Len(src.items) : pos = Begin(k) /\ Reached(k) /\ Upto(k - 1)
    BY <1>3, InputFact DEF BadItem, MacroInv, Reached
  <2>2. PICK k \in 1 .. Len(src.items) : pos = Begin(k) /\ Reached(k) /\ Upto(k - 1)
    BY <2>1
  <2>3. CASE Token(pos).kind # "path"
    <3>1. src.items[k].name = "" /\ src.items[k].value[1].kind # "path"
      BY <2>1, <2>2, <2>3, NameFact
    <3> QED BY <1>3, <2>1, <3>1, SpoiltFact
  <2>4. CASE named /\ ~HasName /\ src.items[k].name # ""
    <3>1. Target(k) \notin Attrs
      BY <2>1, <2>2, <2>4, NameFact DEF HasName
    <3> QED BY <1>3, <2>1, <3>1, SpoiltFact
  <2>5. CASE named /\ src.items[k].name = ""
    <3>1. k - 1 >= Len(Order) \/ \E i \in 1 .. k - 1 : src.items[i].name # ""
      BY <2>2, <2>5 DEF Upto, Counted
    <3>2. CASE k - 1 >= Len(Order)
      <4>1. k \in Nat
        BY <2>1, RangeFact, Zenon
      <4>2. PICK n \in {1, 2} : n = Len(Order)
        BY AttrFact
      <4>3. ~(k <= Len(Order))
        BY <3>2, <4>1, <4>2
      <4>4. Target(k) = "nothing"
        BY <2>1, <2>5, <4>3, NameFact
      <4>5. Target(k) \notin Attrs
        BY <4>4, AttrFact
      <4> QED BY <1>3, <2>1, <4>5, SpoiltFact
    <3>3. CASE \E i \in 1 .. k - 1 : src.items[i].name # ""
      <4>1. \A i \in 1 .. k - 1 : i \in 1 .. Len(src.items) /\ i < k
        BY <2>1, RangeFact, Zenon
      <4> QED BY <1>3, <2>1, <2>5, <3>3, <4>1, SpoiltFact
    <3> QED BY <3>1, <3>2, <3>3
  <2> QED BY <2>3, <2>4, <2>5 DEF BadItem
<1> QED BY <1>2, <1>3

(* What follows an item. *)
LEMMA SeparatorStep ==
  ASSUME MacroInv, Separator
  PROVE  MacroInv'
<1>1. src \in Inputs /\ src.form = "list" /\ named \in BOOLEAN /\ Len(src.items) \in Nat
  BY InputFact DEF MacroInv, Separator
<1>2. CASE Token(pos).kind \notin {",", "end"} /\ ~Readable
  <2>1. Stop("error")
    BY <1>2 DEF Separator, AtEnd
  <2> QED BY <1>2, <2>1, ErrorFact
<1>3. ASSUME NEW k \in 1 .. Len(src.items), pos = Past(k), Reached(k), Upto(k)
      PROVE  MacroInv'
  <2>1. src.style # "leading" /\ (src.style \in {"missing", "double"} => k = 1)
    BY <1>3 DEF Reached
  <2>2. src.style \in {"plain", "trailing", "missing", "double"}
    BY <1>1, <2>1, InputFact
  <2>3. /\ AtEnd(pos) <=> Token(pos).kind = "end"
        /\ Token(pos) = Punct(",") => Token(pos).kind = ","
        /\ Token(pos + 1) = Punct(",") => Token(pos + 1).kind = "," /\ ~AtEnd(pos + 1)
    <3>1. Punct(",").kind = ","
      BY DEF Punct
    <3>2. "," # "end"
      OBVIOUS
    <3> QED BY <3>1, <3>2, Zenon DEF AtEnd
  <2>4. CASE k = Len(src.items)
    <3>1. src.style \in {"plain", "trailing"}
      <4>1. Len(src.items) > 1 => Len(src.items) # 1
        BY <1>1, RangeFact, Zenon
      <4> QED BY <1>1, <2>1, <2>2, <2>4, <4>1, InputFact
    <3>2. Len(src.items) > 0
      BY <1>1, RangeFact, Zenon
    <3>3. Readable /\ conf = Settings
      BY <1>1, <1>3, <2>4, <3>1, <3>2, CompleteFact DEF Upto
    <3>4. IF src.style = "trailing"
          THEN Token(pos) = Punct(",") /\ AtEnd(pos + 1) ELSE AtEnd(pos)
      BY <1>1, <1>3, <2>1, <2>4, PastFact
    <3>5. UNCHANGED <<src, conf, named>> /\ res' = "ok"
      BY <2>3, <3>4 DEF Separator, Stop
    <3> QED BY <3>3, <3>5, OkFact
  <2>5. CASE k < Len(src.items)
    <3>1. k + 1 \in 1 .. Len(src.items) /\ (k + 1) - 1 = k
      <4>1. ~(Len(src.items) < Len(src.items))
        BY <1>1
      <4>2. k # Len(src.items)
        BY <2>5, <4>1
      <4> QED BY <1>1, <4>2, RangeFact, Zenon
    <3>2. Token(Begin(k + 1)).kind \notin {",", "end"}
      BY <1>1, <2>1, <3>1, NameFact
    <3>3. CASE src.style = "missing"
      <4>1. Token(pos).kind \notin {",", "end"}
        BY <1>1, <1>3, <2>1, <2>5, <3>2, <3>3, PastFact
      <4>2. Stop("error")
        BY <2>3, <4>1 DEF Separator
      <4>3. ~Readable
        BY <1>1, <3>3, SpoiltFact
      <4> QED BY <4>2, <4>3, ErrorFact
    <3>4. CASE src.style = "double"
      <4>1. Token(pos) = Punct(",") /\ Token(pos + 1) = Punct(",")
        BY <1>1, <1>3, <2>1, <2>5, <3>4, PastFact
      <4>2. pos' = pos + 1 /\ res' = "item" /\ UNCHANGED <<src, conf, index, named>>
        BY <2>3, <4>1 DEF Separator
      <4>3. ~Readable
        BY <1>1, <3>4, SpoiltFact
      <4>4. Token(pos').kind = ","
        BY <2>3, <4>1, <4>2
      <4> QED BY <1>1, <4>2, <4>3, <4>4, AheadFact
    <3>5. CASE src.style \in {"plain", "trailing"}
      <4>1. Token(pos) = Punct(",") /\ Begin(k + 1) = pos + 1
        BY <1>1, <1>3, <2>1, <2>5, <3>5, PastFact
      <4>2. ~AtEnd(pos + 1)
        BY <3>2, <4>1 DEF AtEnd
      <4>3. pos' = Begin(k + 1) /\ res' = "item" /\ UNCHANGED <<src, conf, index, named>>
        BY <2>3, <4>1, <4>2 DEF Separator
      <4>4. Reached(k + 1) /\ Upto((k + 1) - 1)
        BY <1>3, <3>1, <3>5 DEF Reached
      <4> QED BY <1>1, <3>1, <4>3, <4>4, AheadFact
    <3> QED BY <2>2, <3>3, <3>4, <3>5
  <2> QED BY <1>1, <2>4, <2>5, RangeFact, Zenon
<1> QED BY <1>2, <1>3 DEF MacroInv, Separator

(* MacroInv is inductive. *)
LEMMA MacroStep ==
  ASSUME MacroInv, MacroNext
  PROVE  MacroInv'
BY AttributeStep, NamedItemStep, ElidedItemStep, BadItemStep, SeparatorStep DEF MacroNext

(* The parser reads every attribute as the grammar says, and refuses what  *)
(* the grammar does not have and the two exceptions, whatever the items    *)
(* and however many.                                                       *)
THEOREM AttributesParsed == DispatchSpec => []ParsesGrammar
<1>1. DispatchInit => MacroInv
  BY DEF DispatchInit, MacroInit, MacroInv
<1>2. MacroInv /\ UNCHANGED mvars => MacroInv'
  <2> SUFFICES ASSUME MacroInv, UNCHANGED mvars PROVE MacroInv'
    OBVIOUS
  <2>1. UNCHANGED <<src, pos, conf, index, named, res>>
    BY DEF mvars
  <2>2. \A k : Upto(k)' <=> Upto(k)
    <3>1. \A k : Accepted(k)' <=> Accepted(k)
      BY <2>1, SameSource
    <3>2. \A k : Read(k)' <=> Read(k)
      BY <2>1 DEF Read, Target, Order
    <3>3. \A k : Counted(k)' <=> Counted(k)
      BY <2>1 DEF Counted, Order
    <3> QED BY <3>1, <3>2, <3>3 DEF Upto
  <2> QED BY <2>1, <2>2, SameSource DEF MacroInv
<1>3. DispatchNext => MacroNext \/ UNCHANGED mvars
  BY DEF DispatchNext, NameProxy, Generate, CallNext, CallRpc, CallLocal, CallRaw, TakePosted,
     DropPosted, MethodReturns, MethodPanics, IntoResult, Cancel, Forward, Goto
<1>4. UNCHANGED dvars => UNCHANGED mvars
  BY DEF dvars
<1>5. MacroInv => ParsesGrammar
  BY DEF MacroInv, ParsesGrammar, Readable
<1>6. MacroInv /\ [DispatchNext]_dvars => MacroInv'
  BY <1>2, <1>3, <1>4, MacroStep
<1> QED BY <1>1, <1>5, <1>6, PTL DEF DispatchSpec

-----------------------------------------------------------------------------
(* Where a call runs *)

(* The part of the route that the server accounts for. *)
ServerPart == IF KindOf(conf.server).own THEN <<>> ELSE <<"server">>
SkipsThread == ~KindOf(conf.server).own /\ KindOf(conf.server).hop = "raw"

(* Route, with the settings as they were parsed. *)
ParsedRoute ==
  ServerPart \o (IF KindOf(conf.thread).own \/ SkipsThread THEN <<>> ELSE <<"thread">>)

(* A handle for the thread that goes on with call_local. *)
Loops == ~KindOf(conf.thread).own /\ KindOf(conf.thread).hop = "local"

InCall == {"rpc", "local", "raw", "posted_local", "posted_raw", "running",
           "returning", "unwinding", "overflow"} \cup Results

(* A call is made of code that compiled, from an attribute that was read   *)
(* to its end.                                                             *)
Compiled ==
  /\ call \in InCall => TypeChecks
  /\ call # "none" => res = "ok"
  /\ call \in {"none", "named", "missing_name", "compile_error"} \cup InCall

(* How far the call is, from the handles that were asked. *)
TrailInv ==
  /\ call \in {"none", "rpc"} => trail = <<>>
  /\ call \in {"local", "posted_local"} => (trail = ServerPart /\ ~SkipsThread) \/ Loops
  /\ call \in {"raw", "posted_raw", "running", "returning", "value"} => trail = ParsedRoute
  /\ call = "overflow" => Loops

(* The method completes at the one step that says so. *)
RanInv ==
  /\ call \in {"none", "rpc", "local", "raw", "posted_local", "posted_raw", "running"} => ran = 0
  /\ call \in {"returning", "value"} => ran = 1
  /\ call \in {"unwinding", "panic"} => ran = 0

DInv == Compiled /\ TrailInv /\ RanInv

-----------------------------------------------------------------------------
(* A kind that compiled does one of the three things with a call. *)
LEMMA KindFact ==
  ASSUME TypeChecks, NEW a \in {"server", "thread"}
  PROVE  /\ KindOf(conf[a]).hop \in {"raw", "local", "post"}
         /\ KindOf(conf[a]).own \in BOOLEAN
<1>1. CASE conf[a] = None
  BY <1>1 DEF KindOf, Unit
<1>2. CASE conf[a] # None
  BY <1>2, DispatchAssumption DEF KindOf, TypeChecks
<1> QED BY <1>1, <1>2

(* Nothing is asked before there is a call. *)
LEMMA DispatchInitInv == DispatchInit => DInv
BY DEF DispatchInit, DInv, Compiled, TrailInv, RanInv, InCall, Results

(* What does not touch the attribute does not change what it means. *)
LEMMA SameMeaning ==
  ASSUME UNCHANGED <<mvars, sig>>
  PROVE  /\ ServerPart' = ServerPart /\ (SkipsThread' <=> SkipsThread) /\ (Loops' <=> Loops)
         /\ ParsedRoute' = ParsedRoute /\ (TypeChecks' <=> TypeChecks) /\ res' = res
BY DEF mvars, ServerPart, SkipsThread, Loops, ParsedRoute, TypeChecks, KindOf, Selected

(* A call that asks a handle. *)
LEMMA ForwardStep ==
  ASSUME DInv, NEW a \in {"server", "thread"}, Forward(a),
         \/ a = "server" /\ call = "rpc" /\ ~KindOf(conf.server).own
         \/ a = "thread" /\ call = "local" /\ ~KindOf(conf.thread).own
  PROVE  DInv'
<1>1. TypeChecks /\ res = "ok" /\ ran = 0
  BY DEF DInv, Compiled, RanInv, InCall
<1>2. /\ ServerPart' = ServerPart /\ (SkipsThread' <=> SkipsThread) /\ (Loops' <=> Loops)
      /\ ParsedRoute' = ParsedRoute /\ TypeChecks' /\ res' = res /\ ran' = ran
  BY <1>1, SameMeaning DEF Forward
<1>3. KindOf(conf[a]).hop \in {"raw", "local", "post"} /\ trail' = Append(trail, a)
  BY <1>1, KindFact DEF Forward
<1>4. \/ call' = "overflow"
      \/ call' = "posted_local" /\ a = "server" /\ KindOf(conf[a]).hop = "post"
      \/ call' = "posted_raw" /\ a = "thread" /\ KindOf(conf[a]).hop = "post"
      \/ call' = KindOf(conf[a]).hop /\ KindOf(conf[a]).hop \in {"raw", "local"}
  BY <1>3 DEF Forward
<1>5. Compiled' /\ RanInv'
  BY <1>1, <1>2, <1>3, <1>4 DEF Compiled, RanInv, InCall, Results
<1>6. TrailInv'
  <2>0. Len(trail) = MaxDepth => Loops
    <3>1. Len(<<>>) = 0 /\ Len(<<"server">>) = 1 /\ MaxDepth \notin {0, 1}
      BY DispatchAssumption
    <3>2. Loops \/ trail = <<>> \/ trail = <<"server">>
      BY DEF DInv, TrailInv, ServerPart
    <3> QED BY <3>1, <3>2
  <2>1. CASE a = "server"
    <3>0. call' # "overflow" \/ Loops
      BY <1>3, <2>0 DEF Forward
    <3>1. trail' = <<"server">> /\ ServerPart = <<"server">>
      BY <1>3, <2>1 DEF DInv, TrailInv, ServerPart
    <3>2. SkipsThread <=> KindOf(conf[a]).hop = "raw"
      BY <2>1 DEF SkipsThread
    <3>3. SkipsThread => ParsedRoute = <<"server">>
      BY <3>1 DEF ParsedRoute
    <3> QED BY <1>2, <1>4, <2>1, <3>0, <3>1, <3>2, <3>3 DEF TrailInv
  <2>2. CASE a = "thread"
    <3>1. CASE KindOf(conf[a]).hop = "local"
      BY <1>2, <1>4, <2>2, <3>1 DEF TrailInv, Loops
    <3>2. CASE KindOf(conf[a]).hop # "local"
      <4>1. trail = ServerPart /\ ~SkipsThread
        BY <2>2, <3>2 DEF DInv, TrailInv, Loops
      <4>2. ParsedRoute = ServerPart \o <<"thread">>
        BY <2>2, <4>1 DEF ParsedRoute
      <4>3. trail' = ParsedRoute
        BY <1>3, <2>2, <4>1, <4>2 DEF ServerPart
      <4>4. call' # "overflow" \/ Loops
        BY <1>3, <2>0 DEF Forward
      <4> QED BY <1>2, <1>4, <2>2, <3>2, <4>3, <4>4 DEF TrailInv
    <3> QED BY <3>1, <3>2
  <2> QED BY <2>1, <2>2
<1> QED BY <1>5, <1>6 DEF DInv

(* DInv is inductive. *)
LEMMA DispatchStep ==
  ASSUME DInv, DispatchNext
  PROVE  DInv'
<1> USE DEF DInv, Compiled, TrailInv, RanInv, InCall, Results
<1>1. CASE MacroNext /\ UNCHANGED <<sig, cvars>>
  BY <1>1 DEF MacroNext, Attribute, NamedItem, ElidedItem, BadItem, Separator, Stop, SetNamed,
     cvars
<1>2. CASE NameProxy
  BY <1>2, SameMeaning DEF NameProxy
<1>3. CASE Generate
  BY <1>3, SameMeaning DEF Generate
<1>4. CASE CallRpc
  <2>1. CASE KindOf(conf.server).own
    <3>1. ServerPart = <<>> /\ ~SkipsThread
      BY <2>1 DEF ServerPart, SkipsThread
    <3> QED BY <1>4, <2>1, <3>1, SameMeaning DEF CallRpc, Goto
  <2>2. CASE ~KindOf(conf.server).own
    BY <1>4, <2>2, ForwardStep DEF CallRpc
  <2> QED BY <2>1, <2>2
<1>5. CASE CallLocal
  <2>1. CASE KindOf(conf.thread).own
    <3>1. trail = ServerPart
      BY <1>5, <2>1 DEF CallLocal, Loops
    <3>2. ParsedRoute = ServerPart
      BY <2>1 DEF ParsedRoute, ServerPart
    <3> QED BY <1>5, <2>1, <3>1, <3>2, SameMeaning DEF CallLocal, Goto
  <2>2. CASE ~KindOf(conf.thread).own
    BY <1>5, <2>2, ForwardStep DEF CallLocal
  <2> QED BY <2>1, <2>2
<1>6. CASE CallRaw \/ TakePosted \/ DropPosted \/ MethodPanics
  BY <1>6, SameMeaning DEF CallRaw, TakePosted, DropPosted, MethodPanics, Goto
<1>7. CASE MethodReturns
  BY <1>7, SameMeaning DEF MethodReturns
<1>8. CASE IntoResult
  BY <1>8, SameMeaning DEF IntoResult, Goto
<1>9. CASE Cancel
  BY <1>9, SameMeaning DEF Cancel
<1> QED BY <1>1, <1>2, <1>3, <1>4, <1>5, <1>6, <1>7, <1>8, <1>9 DEF DispatchNext, CallNext

(* The invariant holds of every method, whatever the kinds do with a call. *)
THEOREM DispatchInvariant == DispatchSpec => []DInv
<1>1. DInv /\ UNCHANGED dvars => DInv'
  BY SameMeaning DEF dvars, cvars, DInv, Compiled, TrailInv, RanInv
<1> QED BY <1>1, DispatchInitInv, DispatchStep, PTL DEF DispatchSpec

(* Every call runs its method where the attribute, as it was written,      *)
(* says, after asking each handle once, and a caller that gets a value or  *)
(* a panic is told the truth.                                              *)
THEOREM CallsPlaced == DispatchSpec => []Placement
<1>1. DInv /\ ParsesGrammar => Placement
  <2> SUFFICES ASSUME DInv, ParsesGrammar PROVE Placement
    OBVIOUS
  <2>1. res = "ok" => Route = ParsedRoute
    BY DEF ParsesGrammar, Route, ParsedRoute, ServerPart, SkipsThread, Wanted
  <2> QED BY <2>1 DEF Placement, DInv, Compiled, TrailInv, RanInv
<1> QED BY <1>1, AttributesParsed, DispatchInvariant, PTL

(* call_local asks the same handle again and again only where the handle   *)
(* of the thread that the attribute names goes on with call_local itself;  *)
(* no other call runs out of stack.                                        *)
THEOREM OverflowLoops ==
  DispatchSpec => [](call = "overflow" => ~Wanted("thread").own /\ Wanted("thread").hop = "local")
<1>1. DInv /\ ParsesGrammar =>
        (call = "overflow" => ~Wanted("thread").own /\ Wanted("thread").hop = "local")
  <2> SUFFICES ASSUME DInv, ParsesGrammar, call = "overflow"
               PROVE  ~Wanted("thread").own /\ Wanted("thread").hop = "local"
    OBVIOUS
  <2>1. Loops /\ conf = Settings
    BY DEF DInv, TrailInv, Compiled, ParsesGrammar
  <2> QED BY <2>1 DEF Loops, Wanted
<1> QED BY <1>1, AttributesParsed, DispatchInvariant, PTL
=============================================================================
