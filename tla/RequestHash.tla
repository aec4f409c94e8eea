----------------------------- MODULE RequestHash -----------------------------
(***************************************************************************)
(* CreatePaymentUseCase._build_request_hash: which request bodies have the  *)
(* same request_hash, and so pass for the same request under one            *)
(* Idempotency-Key.                                                        *)
(*                                                                         *)
(* A Decimal is coef * 10^exp with the digits it was written with.  A JSON  *)
(* object is the sequence of its members in the order they were written;    *)
(* keys are numbers for their lexical order.  SHA-256, and the text that    *)
(* json.dumps writes for a value in its order, are taken as injective.      *)
(***************************************************************************)
EXTENDS Integers, Sequences

CONSTANTS
  Precision,  \* significant digits of Python's decimal context, 28
  Values,     \* the JSON values that occur in metadata, their parts included
  Depth       \* how deep each of them is nested

Member == [key : Nat, value : Values]

\* The keys of a JSON object are distinct, and a value is finite.
ASSUME HashAssumption ==
  /\ Precision \in Nat \ {0}
  /\ Depth \in [Values -> Nat]
  /\ \A v \in Values :
       /\ v.kind = "object" =>
            /\ v.items \in Seq(Member)
            /\ \A i \in DOMAIN v.items : Depth[v.items[i].value] < Depth[v]
            /\ \A i, j \in DOMAIN v.items : v.items[i].key = v.items[j].key => i = j
       /\ v.kind = "list" =>
            /\ v.items \in Seq(Values)
            /\ \A i \in DOMAIN v.items : Depth[v.items[i]] < Depth[v]

----------------------------------------------------------------------------
(* _normalize_decimal                                                      *)

TenTo[n \in Nat] == IF n = 0 THEN 1 ELSE 10 * TenTo[n - 1]

\* Positive numbers: the schema has amount: Decimal = Field(gt=0).
Amounts == [coef : Nat \ {0}, exp : Int]

\* How many digits there are beyond the precision of the context.
Excess(d) ==
  CHOOSE n \in 0..d.coef :
    /\ d.coef < TenTo[Precision + n]
    /\ n > 0 => TenTo[Precision + n - 1] <= d.coef

\* n / unit, to the nearest integer, half to even.
HalfEven(n, unit) ==
  LET down == n \div unit
      rest == 2 * (n % unit)
      up   == rest > unit \/ (rest = unit /\ down % 2 = 1)
  IN IF up THEN down + 1 ELSE down

\* The context rounds to Precision digits.
Rounded(d) ==
  [coef |-> HalfEven(d.coef, TenTo[Excess(d)]), exp |-> d.exp + Excess(d)]

\* The trailing zeros of a coefficient.
Zeros(c) == CHOOSE n \in 0..c : c % TenTo[n] = 0 /\ c % TenTo[n + 1] # 0

\* Without trailing zeros, and with as many more in the exponent.
Stripped(d) ==
  [coef |-> d.coef \div TenTo[Zeros(d.coef)], exp |-> d.exp + Zeros(d.coef)]

\* format(_, "f"): the digits in full, and how many of them follow the point.
Plain(d) ==
  IF d.exp >= 0 THEN [digits |-> d.coef * TenTo[d.exp], places |-> 0]
                ELSE [digits |-> d.coef, places |-> -d.exp]

\* Mutant: the digits as they were written, value.normalize() is missing.
FormatAsWritten(d) == Plain(d)

\* Mutant: only the integral part.
FormatTruncated(d) ==
  Plain(IF d.exp >= 0 THEN d ELSE [coef |-> d.coef \div TenTo[-d.exp], exp |-> 0])

NormalizeDecimal(d) == Plain(Stripped(Rounded(d)))

----------------------------------------------------------------------------
(* _normalize_json                                                         *)

Elements(s) == {s[i] : i \in DOMAIN s}

\* sorted: the same members in the order of their keys.
ByKey(members) ==
  CHOOSE s \in [DOMAIN members -> Elements(members)] :
    /\ Elements(s) = Elements(members)
    /\ \A i, j \in DOMAIN s : i < j => s[i].key < s[j].key

\* Objects are sorted by key at every depth, lists keep their order.
Normal[v \in Values] ==
  CASE v.kind = "object" ->
         [kind |-> "object",
          items |-> ByKey([i \in DOMAIN v.items |->
                      [key |-> v.items[i].key, value |-> Normal[v.items[i].value]]])]
    [] v.kind = "list" ->
         [kind |-> "list", items |-> [i \in DOMAIN v.items |-> Normal[v.items[i]]]]
    [] OTHER -> v

NormalizeJson(v) == Normal[v]

\* What json.dumps is given.
Normals == {Normal[v] : v \in Values}

\* json.dumps(sort_keys=True): the members in the order of their keys once more, at
\* every depth.
Dumped[n \in Normals] ==
  CASE n.kind = "object" ->
         [kind |-> "object",
          items |-> ByKey([i \in DOMAIN n.items |->
                      [key |-> n.items[i].key, value |-> Dumped[n.items[i].value]]])]
    [] n.kind = "list" ->
         [kind |-> "list", items |-> [i \in DOMAIN n.items |-> Dumped[n.items[i]]]]
    [] OTHER -> n

\* `rest` stands for currency, description and webhook_url, which enter as they are.
BuildRequestHash(body) ==
  [amount   |-> NormalizeDecimal(body.amount),
   metadata |-> Dumped[NormalizeJson(body.metadata)],
   rest     |-> body.rest]

----------------------------------------------------------------------------
(* What a body means                                                       *)

SameAmount(d, e) ==
  LET least == IF d.exp < e.exp THEN d.exp ELSE e.exp
  IN d.coef * TenTo[d.exp - least] = e.coef * TenTo[e.exp - least]

\* An amount that the context does not round.
Exact(d) == SameAmount(Rounded(d), d)

KeysOf(v) == {v.items[i].key : i \in DOMAIN v.items}
ValueAt(v, k) == v.items[CHOOSE i \in DOMAIN v.items : v.items[i].key = k].value

\* An object is a function from its keys, whatever their order.
Meaning[v \in Values] ==
  CASE v.kind = "object" ->
         [kind |-> "object", members |-> [k \in KeysOf(v) |-> Meaning[ValueAt(v, k)]]]
    [] v.kind = "list" ->
         [kind |-> "list", items |-> [i \in DOMAIN v.items |-> Meaning[v.items[i]]]]
    [] OTHER -> v

SameRequest(b, c) ==
  /\ SameAmount(b.amount, c.amount)
  /\ Meaning[b.metadata] = Meaning[c.metadata]
  /\ b.rest = c.rest
=============================================================================
