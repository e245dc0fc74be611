---------------------------- MODULE ForwardMacro ----------------------------
(***************************************************************************)
(* The parser of the attributes of forward_macro: #[forward_proxy(...)] on *)
(* an impl and #[forward(...)] on its methods.  named_attrs_config!        *)
(* generates it for both from their settings, of which the first ones may  *)
(* be given without their names.                                           *)
(*                                                                         *)
(* An attribute is a sequence of items, each a value with or without a     *)
(* name, joined by commas in some style; the parser sees the tokens.  A    *)
(* token is a path, a literal, a parenthesised group or a punctuation      *)
(* mark; what syn makes of them is modelled from how the code uses it.     *)
(***************************************************************************)
EXTENDS Naturals, Sequences, SequencesExt, FiniteSets

CONSTANT Inputs  \* the attributes: [of, form, items, style, trait]

(* A value is a path or a literal and perhaps parentheses, and is never    *)
(* spelled like None below; the styles need items to be told apart.        *)
ASSUME InputAssumption ==
  \A s \in Inputs :
    /\ s.form \in {"absent", "path", "name_value", "list"}
    /\ s.items \in Seq(ToSet(s.items))
    /\ s.style \in {"plain", "trailing", "leading", "missing", "double"}
    /\ s.style = "trailing" => Len(s.items) > 0
    /\ s.style \in {"missing", "double"} => Len(s.items) > 1
    /\ \A i \in DOMAIN s.items :
         LET v == s.items[i].value
         IN  /\ v \in Seq(ToSet(v)) /\ Len(v) \in {1, 2}
             /\ v[1].kind \in {"path", "str", "int"} /\ v[1].of # "none"
             /\ Len(v) = 2 => v[2].kind = "paren"

VARIABLES
  src,    \* the attribute being parsed
  pos,    \* the position of `input` in its tokens
  conf,   \* the config so far
  index,  \* how many settings were given without a name
  named,  \* `current` is None: names are required from here on
  res     \* "attribute", "item", "separator", then "ok", "error" or "panic"

mvars == <<src, pos, conf, index, named, res>>

(* config/mod.rs: the settings of the two attributes *)
Order == IF src.of = "ForwardConfig" THEN <<"server", "thread">> ELSE <<"name">>
AttrType ==
  IF src.of = "ForwardConfig"
  THEN [server |-> "selector", thread |-> "selector", name |-> "str", timeout |-> "int"]
  ELSE [name |-> "str"]
Attrs == DOMAIN AttrType

None == [path |-> "none", sel |-> ""]
Empty == [a \in {"server", "thread", "name", "timeout"} |-> None]

Punct(p) == [kind |-> p, of |-> ""]
Path(p) == [kind |-> "path", of |-> p]

(* the tokens of an attribute's parentheses: its items, and what joins each *)
(* to the next                                                              *)
ItemTokens(s, i) ==
  (IF s.items[i].name = "" THEN <<>> ELSE <<Path(s.items[i].name), Punct("=")>>) \o s.items[i].value
Joint(s, i) ==
  IF i = Len(s.items) THEN IF s.style = "trailing" THEN <<Punct(",")>> ELSE <<>>
  ELSE CASE s.style = "missing" -> <<>>
         [] s.style = "double" -> <<Punct(","), Punct(",")>>
         [] OTHER -> <<Punct(",")>>
Tokens(s) ==
  (IF s.style = "leading" THEN <<Punct(",")>> ELSE <<>>)
    \o FlattenSeq([i \in DOMAIN s.items |-> ItemTokens(s, i) \o Joint(s, i)])

Token(p) == LET ts == Tokens(src) IN IF p <= Len(ts) THEN ts[p] ELSE Punct("end")
AtEnd(p) == Token(p).kind = "end"

MacroInit ==
  /\ src \in Inputs
  /\ pos = 1 /\ conf = Empty /\ index = 0 /\ named = FALSE
  /\ res = "attribute"

Stop(r) == res' = r /\ UNCHANGED <<src, pos, conf, index, named>>

(* parse_forward_config: no attribute and #[forward] are the empty config, *)
(* #[forward = ...] is refused.  Parse::parse: so is an empty list.        *)
Attribute ==
  /\ res = "attribute"
  /\ Stop(CASE src.form \in {"absent", "path"} -> "ok"
            [] src.form = "name_value" -> "error"
            [] OTHER -> IF AtEnd(1) THEN "ok" ELSE "item")

(* <LitStr, LitInt or PathSelector>::parse: what is read at p, and where   *)
(* it ends.  The parentheses of a PathSelector may be missing or empty.    *)
Parsed(type, p) ==
  IF type = "selector"
  THEN LET paren == Token(p + 1).kind = "paren"
       IN  [ok |-> Token(p).kind = "path" /\ (paren => Token(p + 1).of # "malformed"),
            val |-> [path |-> Token(p).of, sel |-> IF paren THEN Token(p + 1).of ELSE ""],
            next |-> IF paren THEN p + 2 ELSE p + 1]
  ELSE [ok |-> Token(p).kind = type, val |-> [path |-> Token(p).of, sel |-> ""], next |-> p + 1]

(* NamedAttr::parse finds a setting's name and `=` after a path *)
HasName == Token(pos).of \in Attrs /\ Token(pos + 1).kind = "="

(* Fault: the second of two values for a setting wins. *)
SetNamed_last(a, r) ==
  /\ r.ok
  /\ conf' = [conf EXCEPT ![a] = r.val]
  /\ pos' = r.next /\ named' = TRUE /\ res' = "separator"
  /\ UNCHANGED <<src, index>>

(* set_named refuses a setting that is set already *)
SetNamed(a, r) ==
  \/ /\ r.ok /\ conf[a] = None
     /\ conf' = [conf EXCEPT ![a] = r.val]
     /\ pos' = r.next /\ named' = TRUE /\ res' = "separator"
     /\ UNCHANGED <<src, index>>
  \/ ~(r.ok /\ conf[a] = None) /\ Stop("error")

NamedItem ==
  /\ res = "item" /\ Token(pos).kind = "path" /\ HasName
  /\ SetNamed(Token(pos).of, Parsed(AttrType[Token(pos).of], pos + 2))

(* ElidedOrder::parse on the fork, from before the path; set_elided asserts *)
(* that the setting is not set                                              *)
ElidedItem ==
  /\ res = "item" /\ Token(pos).kind = "path" /\ ~HasName /\ ~named
  /\ LET a == Order[index + 1]
         r == Parsed(AttrType[a], pos)
     IN  \/ /\ r.ok
            /\ conf' = [conf EXCEPT ![a] = r.val]
            /\ pos' = r.next /\ index' = index + 1
            /\ named' = (index + 1 = Len(Order))
            /\ res' = IF conf[a] = None THEN "separator" ELSE "panic"
            /\ UNCHANGED src
         \/ ~r.ok /\ Stop("error")

(* no path to begin with, or a name was required *)
BadItem ==
  /\ res = "item"
  /\ Token(pos).kind # "path" \/ (named /\ ~HasName)
  /\ Stop("error")

(* a comma or the end; the last comma is optional *)
Separator ==
  /\ res = "separator"
  /\ \/ AtEnd(pos) /\ Stop("ok")
     \/ ~AtEnd(pos) /\ Token(pos).kind # "," /\ Stop("error")
     \/ /\ Token(pos).kind = ","
        /\ pos' = pos + 1
        /\ res' = IF AtEnd(pos + 1) THEN "ok" ELSE "item"
        /\ UNCHANGED <<src, conf, index, named>>

MacroNext == Attribute \/ NamedItem \/ ElidedItem \/ BadItem \/ Separator
-----------------------------------------------------------------------------
(* The grammar of the attributes, on their items *)

(* an item without a name sets the setting of its position *)
Target(i) ==
  IF src.items[i].name # "" THEN src.items[i].name
  ELSE IF i <= Len(Order) THEN Order[i] ELSE "nothing"

(* the value of a setting is one literal, or a path and perhaps a selector *)
Fits(v, type) ==
  IF type = "selector"
  THEN /\ v[1].kind = "path"
       /\ Len(v) = 2 => v[2].kind = "paren" /\ v[2].of # "malformed"
  ELSE Len(v) = 1 /\ v[1].kind = type

Meaning(v) == [path |-> v[1].of, sel |-> IF Len(v) = 2 THEN v[2].of ELSE ""]

(* What is declared and documented: config/mod.rs declares the settings,   *)
(* their types and, with `@`, which may do without a name; the sample of   *)
(* forward_macro/src/lib.rs:45 also writes `timeout=None`.                 *)
NoTimeout(i) == Target(i) = "timeout" /\ src.items[i].value = <<Path("None")>>

Allowed(i) ==
  /\ Target(i) \in Attrs
  /\ Fits(src.items[i].value, AttrType[Target(i)]) \/ NoTimeout(i)

WellFormed ==
  \/ src.form \in {"absent", "path"}
  \/ src.form = "list" /\ src.items = <<>> /\ src.style = "plain"
  \/ /\ src.form = "list" /\ src.items # <<>> /\ src.style \in {"plain", "trailing"}
     /\ \A i, j \in DOMAIN src.items :
          /\ Allowed(i)
          /\ i # j => Target(i) # Target(j)
          /\ i < j /\ src.items[j].name = "" => src.items[i].name = ""

(* What is refused nevertheless: a literal without its name, as in         *)
(* #[forward_proxy("X")], where `@name = LitStr` is declared but           *)
(* NamedAttr::parse looks for a path first (macros.rs:162); and            *)
(* `timeout=None`, as a LitInt is parsed (mod.rs:42).                      *)
Refused ==
  src.form = "list" /\ \E i \in DOMAIN src.items :
    \/ src.items[i].name = "" /\ src.items[i].value[1].kind # "path"
    \/ NoTimeout(i)

Settings ==
  [a \in DOMAIN Empty |->
     IF src.form = "list" /\ \E i \in DOMAIN src.items : Target(i) = a
     THEN Meaning(src.items[CHOOSE i \in DOMAIN src.items : Target(i) = a].value)
     ELSE None]

(* The parser, which backtracks from names to values, accepts the          *)
(* attributes that the declaration and the documentation of the settings   *)
(* allow: items without names come first and in order, each value has the  *)
(* type of its setting, no setting is given twice.  There are exactly two  *)
(* exceptions, both against what is written: a literal without its name,   *)
(* declared at config/mod.rs:34, and `timeout=None`, shown at lib.rs:45,   *)
(* are errors.  What is accepted is read as what it says, nothing else is  *)
(* accepted, and the assertion of set_elided never fails.                  *)
ParsesGrammar ==
  /\ res # "panic"
  /\ res = "error" => ~WellFormed \/ Refused
  /\ res = "ok" => WellFormed /\ ~Refused /\ conf = Settings
=============================================================================
