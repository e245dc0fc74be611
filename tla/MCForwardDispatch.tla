------------------------- MODULE MCForwardDispatch -------------------------
(* Model-checking instance of ForwardMacro and ForwardDispatch. *)
EXTENDS ForwardDispatch, TLC

Lit(t) == [kind |-> t, of |-> t]
Paren(s) == [kind |-> "paren", of |-> s]
Item(n, v) == [name |-> n, value |-> v]

(* server and thread kinds of examples/test.rs and the documentation of    *)
(* the macro, and one that posts; `name` is a path like any other          *)
KindTable ==
  [Center |-> [index |-> "()", own |-> FALSE, hop |-> "local"],
   Local |-> [index |-> "()", own |-> FALSE, hop |-> "raw"],
   UserThread |-> [index |-> "u32", own |-> FALSE, hop |-> "post"],
   name |-> [index |-> "()", own |-> TRUE, hop |-> "raw"]]

Outputs == "2" :> "u32"

Sigs == {[receiver |-> TRUE, args |-> FALSE, async |-> FALSE],
         [receiver |-> TRUE, args |-> FALSE, async |-> TRUE],
         [receiver |-> TRUE, args |-> TRUE, async |-> FALSE],
         [receiver |-> FALSE, args |-> FALSE, async |-> FALSE]}

Values == {<<Path("Center")>>, <<Path("Local"), Paren("")>>,
           <<Path("UserThread"), Paren("2")>>, <<Path("UserThread")>>}
Elided == {Item("", v) : v \in Values \cup {<<Path("name")>>, <<Path("Local"), Paren("malformed")>>,
                                             <<Lit("str")>>}}
Named == {Item(a, v) : a \in {"server", "thread"}, v \in Values}
  \cup {Item("name", <<Lit("str")>>), Item("timeout", <<Lit("int")>>),
        Item("timeout", <<Path("Center")>>), Item("timeout", <<Path("None")>>),
        Item("server", <<Lit("str")>>),
        Item("unknown", <<Path("Local")>>), Item("thread", <<Path("Missing")>>)}
Items == Elided \cup Named

Attr(of, form, items, style, trait) ==
  [of |-> of, form |-> form, items |-> items, style |-> style, trait |-> trait]

(* the attributes that the documentation of the macro shows (lib.rs:36-51), *)
(* with an ASCII comma for the full-width one in front of `timeout`         *)
Samples ==
  {Attr("ProxyConfig", "list", <<Item("name", <<Lit("str")>>)>>, "plain", TRUE)}
  \cup {Attr("ForwardConfig", "list", s, "plain", TRUE) :
          s \in {<<Item("", <<Path("Center")>>)>>,
                 <<Item("server", <<Path("Game")>>), Item("thread", <<Path("UserThread"), Paren("2")>>),
                   Item("name", <<Lit("str")>>), Item("timeout", <<Path("None")>>)>>,
                 <<Item("thread", <<Path("EventThread")>>)>>}}

(* every sequence of at most three items, and the ways to join a few *)
Attributes == Samples
  \cup {Attr("ForwardConfig", "list", s, "plain", TRUE) : s \in SeqOf(Items, 3)}
  \cup {Attr("ForwardConfig", "list", s, st, TRUE) :
          s \in SeqOf(Elided \cup {Item("name", <<Lit("str")>>)}, 2),
          st \in {"trailing", "leading", "missing", "double"}}
  \cup {Attr("ForwardConfig", f, <<>>, "plain", TRUE) : f \in {"absent", "path", "name_value"}}
  \cup {Attr("ProxyConfig", "list", s, "plain", t) : s \in SeqOf(Items, 2), t \in BOOLEAN}

(* the styles need items to be told apart *)
AllInputs ==
  {a \in Attributes : /\ a.style = "trailing" => a.items # <<>>
                      /\ a.style \in {"missing", "double"} => Len(a.items) = 2}
=============================================================================
