------------------------------- MODULE CqyMsg -------------------------------
(***************************************************************************)
(* Messages between contexts: cqy_msg_t, cqy_str::make and cqy_handle_t.    *)
(*                                                                         *)
(* A name is the number of its characters: the names are the prefixes of   *)
(* one string, and 0 is the empty name.  The body of a message is what     *)
(* follows the header; only a routed one has a name.                       *)
(***************************************************************************)
EXTENDS Naturals

CONSTANT ByteMod   \* 2^8, the values of the byte that holds a name's length

ASSUME ByteAssumption == ByteMod \in Nat \ {0}

\* cqy_handle_t: the node in the high byte, the context in the others.
Handle(node, ctx) == [node |-> node, ctx |-> ctx]
NoId == Handle(0, 0)

\* make to an id ...
Make(source, to, session, rsp) ==
  [from |-> source, to |-> to, session |-> session, response |-> rsp,
   route |-> FALSE, size |-> 0, chars |-> 0]

\* Variant: the body starts with the name, without its length.
MakeNamedBare(source, nodeto, name, session) ==
  [from |-> source, to |-> Handle(nodeto, 0), session |-> session,
   response |-> FALSE, route |-> TRUE, size |-> 0, chars |-> name]

\* ... and to a name: *p = name.size() keeps the low byte, the name is copied
\* in full.
MakeNamed(source, nodeto, name, session) ==
  [from |-> source, to |-> Handle(nodeto, 0), session |-> session,
   response |-> FALSE, route |-> TRUE, size |-> name % ByteMod, chars |-> name]

\* cqy_msg_t::name(): as many characters as the byte says.
NameIn(m) == IF m.route THEN m.size ELSE 0

\* cqy_msg_t::buffer(): how many characters of the name precede the data.
StrayIn(m) == IF m.route THEN m.chars - m.size ELSE 0
=============================================================================
