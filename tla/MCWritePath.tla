----------------------------- MODULE MCWritePath -----------------------------
(***************************************************************************)
(* Model-checking instance of a write and what it sets off: the statement  *)
(* itself (clause menus and committed graphs below), or the compaction its *)
(* commit may claim.                                                       *)
(***************************************************************************)
EXTENDS WriteStatement, RebuildClaim, TLC

NoX    == [k |-> "none", lit |-> Null, var |-> ""]
Lit(v) == [k |-> "lit", lit |-> v, var |-> ""]
Of(v)  == [k |-> "var", lit |-> Null, var |-> v]

N(v, l, x) == [var |-> v, label |-> l, x |-> x]
Hop(v, inc, x, np) == [var |-> v, type |-> "R", incoming |-> inc, x |-> x, node |-> np]
P0(np)     == [node |-> np, hops |-> <<>>]
P1(np, h)  == [node |-> np, hops |-> <<h>>]

Match(pat, fresh)         == [op |-> "match", pat |-> pat, needs |-> {}, fresh |-> fresh]
Create(pat, needs, fresh) == [op |-> "create", pat |-> pat, needs |-> needs, fresh |-> fresh]
Merge(pat, needs, fresh, m, c) ==
  [op |-> "merge", pat |-> pat, needs |-> needs, fresh |-> fresh, onMatch |-> m, onCreate |-> c]
Item(op, v, x, l) == [op |-> op, var |-> v, x |-> x, label |-> l]
SetTo(its, needs) == [op |-> "set", items |-> its, needs |-> needs, fresh |-> {}]
RemoveFrom(its, needs) == [op |-> "remove", items |-> its, needs |-> needs, fresh |-> {}]
Delete(vs, d) == [op |-> "delete", targets |-> vs, detach |-> d, needs |-> vs, fresh |-> {}]
WithVars(vs, d) == [op |-> "with", keep |-> vs, distinct |-> d, needs |-> vs, fresh |-> {}]

\* The hop every graph below has a committed triple for.
HopAB == P1(N("a", "A", NoX), Hop("r", FALSE, NoX, N("b", "any", NoX)))

MCMenu == {
  Match(P0(N("a", "A", NoX)), {"a"}),
  Match(P0(N("b", "B", Lit(1))), {"b"}),
  Match(HopAB, {"r"}),
  Match(P1(N("b", "any", NoX), Hop("s", TRUE, Lit(1), N("c", "any", NoX))), {"s", "c"}),
  Create(P1(N("a", "A", NoX), Hop("r", FALSE, Lit(1), N("b", "B", Of("a")))), {"a"}, {"r", "b"}),
  Create(P0(N("b", "B", Lit(0))), {}, {"b"}),
  Merge(P1(N("a", "A", NoX), Hop("r", FALSE, NoX, N("b", "B", NoX))), {"a"}, {"r", "b"}, <<>>, <<>>),
  Merge(P0(N("b", "B", Of("a"))), {"a"}, {"b"}, <<>>, <<>>),
  Merge(P0(N("b", "B", Lit(1))), {}, {"b"}, <<Item("prop", "b", Lit(0), "")>>,
        <<Item("labels", "b", NoX, "A")>>),
  SetTo(<<Item("prop", "a", Lit(1), "")>>, {"a"}),
  SetTo(<<Item("prop", "r", Of("b"), "")>>, {"r", "b"}),
  SetTo(<<Item("labels", "a", NoX, "B")>>, {"a"}),
  SetTo(<<Item("all", "b", NoX, ""), Item("labels", "b", NoX, "A")>>, {"b"}),
  SetTo(<<Item("merge", "a", NoX, "")>>, {"a"}),
  RemoveFrom(<<Item("labels", "a", NoX, "A")>>, {"a"}),
  RemoveFrom(<<Item("prop", "b", NoX, "")>>, {"b"}),
  Delete({"a"}, FALSE), Delete({"a"}, TRUE), Delete({"r"}, FALSE), Delete({"a", "r", "b"}, FALSE),
  WithVars({"a"}, TRUE), WithVars({"b"}, FALSE) }

Nd(ls, x) == [labels |-> ls, x |-> x]
Ed(s, d, x) == [src |-> s, dst |-> d, type |-> "R", x |-> x]
G(ns, es) == [nodes |-> ns, edges |-> es, nextN |-> Len(ns) + 1, nextE |-> Len(es) + 1]

\* Two nodes and an edge, a self-loop and a shared target, no edge at all.
MCCommitted == {
  G(<<Nd({"A"}, 1), Nd({"B"}, 0)>>, <<Ed(1, 2, 1)>>),
  G(<<Nd({"A"}, Null), Nd({"A", "B"}, 1)>>, <<Ed(1, 1, Null), Ed(1, 2, 1)>>),
  G(<<Nd({"A"}, 0), Nd({"A"}, 0), Nd({"B"}, 1)>>, <<Ed(1, 3, Null), Ed(2, 3, 1)>>) }

-----------------------------------------------------------------------------
VARIABLE part

PathInit == /\ Init /\ ClaimInit
            /\ part \in {"statement", "claim"}
            /\ part = "claim" => db = CHOOSE g \in Committed : TRUE

PathNext ==
    \/ part = "statement" /\ Next /\ UNCHANGED <<claimVars, part>>
    \/ part = "claim" /\ ClaimNext /\ UNCHANGED <<vars, part>>

\* While a statement runs none of the claim's fair steps is enabled.
PathSpec == PathInit /\ [][PathNext]_<<vars, claimVars, part>> /\ Fairness
=============================================================================
