------------------------------ MODULE MCBatch ------------------------------
(***************************************************************************)
(* An instance of Batch for TLC: two spellings of one hash and an address, *)
(* and every way in which an item or a field can be wrong.                 *)
(***************************************************************************)
EXTENDS Batch, TLC

MCKinds == {"ip", "hash"}
MCTexts == {"AB", "ab", "8"}
MCLookupOf ==
  [x \in MCKinds \X MCTexts |->
     IF x = <<"ip", "8">> THEN "8"
     ELSE IF x \in {<<"hash", "AB">>, <<"hash", "ab">>} THEN "ab"
     ELSE None]

Item(type, value, unknown) == [type |-> type, value |-> value, unknown |-> unknown]

GoodItems == {Item("hash", "AB", 0), Item("hash", "ab", 0), Item("ip", "8", 0)}

BadItems ==
  {OtherType, Item("ip", "AB", 0), Item("domain", "AB", 0), Item(Missing, "8", 0),
   Item("ip", Missing, 0), Item("ip", "too long", 0), Item("ip", "8", 1)}

Body(indicators, providers, include_raw, unknown) ==
  [indicators |-> indicators, providers |-> providers,
   include_raw |-> include_raw, unknown |-> unknown]

Batches == UNION {[1 .. n -> GoodItems] : n \in 1 .. 2}

(* Valid batches with every choice of providers; a batch that is too long,  *)
(* empty, has a wrong item or is no array; wrong providers and fields.      *)
MCBodies ==
  {Body(b, p, raw, 0) : b \in Batches, p \in {Missing, <<"V">>, <<"V", "A">>},
                        raw \in {Missing, TRUE}}
  \cup {Body(<<g, b>>, Missing, TRUE, 0) : g \in GoodItems, b \in BadItems}
  \cup {Body(f, Missing, FALSE, 0) :
          f \in {Missing, OtherType, <<>>} \cup [1 .. 3 -> GoodItems]}
  \cup {Body(b, p, raw, u) : b \in [1 .. 1 -> GoodItems],
          p \in {OtherType, <<>>, <<"A", "A">>, <<"A", "X">>, <<"A">>},
          raw \in {FALSE, OtherType}, u \in 0 .. 1}

MCEnabled == <<"A", "V">>

MCHeaders ==
  {<<<<"json">>, {}>>, <<<<"json in utf-8">>, {"identity"}>>, <<<<>>, {}>>,
   <<<<"json", "json">>, {}>>, <<<<"text">>, {}>>, <<<<"json">>, {"gzip"}>>}

MCOutcomes ==
  {[size |-> 10, raw |-> 0], [size |-> 12, raw |-> 3], [size |-> 20, raw |-> 6]}
=============================================================================
