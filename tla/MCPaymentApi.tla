----------------------------- MODULE MCPaymentApi ----------------------------
(* A small instance of PaymentApiBodies.                                    *)
EXTENDS PaymentApiBodies, FiniteSetsExt

----------------------------------------------------------------------------
(* Metadata, with 1 and 2 for the keys                                     *)

Num(n) == [kind |-> "int", value |-> n]
List(items) == [kind |-> "list", items |-> items]
At(k, v) == [key |-> k, value |-> v]
Object(items) == [kind |-> "object", items |-> items]

Up == List(<<Num(1), Num(2)>>)
Down == List(<<Num(2), Num(1)>>)
Inner == Object(<<At(1, Num(1)), At(2, Num(2))>>)
InnerSwapped == Object(<<At(2, Num(2)), At(1, Num(1))>>)

Plainly == Object(<<At(1, Inner), At(2, Up)>>)
Swapped == Object(<<At(2, Up), At(1, InnerSwapped)>>)
OtherList == Object(<<At(1, Inner), At(2, Down)>>)

MCValues == {Num(1), Num(2), Up, Down, Inner, InnerSwapped, Plainly, Swapped, OtherList}

MCDepth[v \in MCValues] ==
  CASE v.kind = "object" -> 1 + Max({MCDepth[v.items[i].value] : i \in DOMAIN v.items})
    [] v.kind = "list"   -> 1 + Max({MCDepth[v.items[i]] : i \in DOMAIN v.items})
    [] OTHER -> 0

----------------------------------------------------------------------------
(* Bodies                                                                  *)

Body(coef, exp, metadata) ==
  [amount |-> [coef |-> coef, exp |-> exp], metadata |-> metadata, rest |-> 1]

\* One request in two spellings, 10.00 and 1E+1, and what a careless normalisation
\* would take for the same: another fraction of a unit, another order of a list.
MCContent == <<Body(1000, -2, Plainly), Body(1, 1, Swapped),
               Body(105, -1, Plainly), Body(10, 0, OtherList)>>

\* SHA-256: the normal forms are numbered.
MCHashOf == [i \in DOMAIN MCContent |->
  Min({j \in DOMAIN MCContent : BuildRequestHash(MCContent[j]) = BuildRequestHash(MCContent[i])})]
=============================================================================
