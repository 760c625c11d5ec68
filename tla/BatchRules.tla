----------------------------- MODULE BatchRules -----------------------------
(***************************************************************************)
(* The sequential parts of a batch: what makes a request valid             *)
(* (validate_request of src/domain.rs, supported_media_type of             *)
(* src/http.rs), which of its slots share a lookup (enrich_admitted), and  *)
(* what fits into the response (project, src/serialization.rs).            *)
(*                                                                         *)
(* A body is a record of its fields; a field is Missing, of an OtherType   *)
(* than it should be, or has its content. The parsers of the texts are     *)
(* given by LookupOf. Sizes are numbers of bytes chosen by the instance.   *)
(***************************************************************************)
EXTENDS Integers, FiniteSets, FiniteSetsExt, SequencesExt

CONSTANTS
  Kinds, Texts, Values,
  LookupOf,       \* the lookup value of a text of a kind, None if it is invalid
  EnabledOrder,   \* Enrichment::enabled, in the order of the IDs
  KnownProviders, \* ProviderId
  MaxBatch,       \* config.max_batch_size
  DetailLimit,    \* the 100 of `detail`
  RawBudget,      \* config.max_raw_response_bytes
  EnvelopeLimit,  \* ENVELOPE_LIMIT
  FrameSize,      \* an empty envelope
  ReasonSize,     \* a field raw_omitted_reason
  Missing, OtherType, None

ASSUME LookupAssumption == LookupOf \in [Kinds \X Texts -> Values \cup {None}]
ASSUME ProvidersAssumption ==
  /\ IsFiniteSet(KnownProviders)
  /\ EnabledOrder \in Seq(KnownProviders)
  /\ Len(EnabledOrder) > 0 /\ IsInjective(EnabledOrder)
ASSUME SizesAssumption ==
  {MaxBatch, DetailLimit, RawBudget, EnvelopeLimit} \subseteq Nat \ {0}
ASSUME FrameAssumption == {FrameSize, ReasonSize} \subseteq Nat

-----------------------------------------------------------------------------
(* supported_media_type. One header Content-Type, of application/json with  *)
(* no parameter or charset=utf-8, and no encoding but identity.             *)
SupportedMediaType(contentTypes, encodings) ==
  /\ Len(contentTypes) = 1
  /\ contentTypes[1] \in {"json", "json in utf-8"}
  /\ encodings \subseteq {"identity"}

-----------------------------------------------------------------------------
(* validate_request. What is wrong with a part is the number of details it  *)
(* gives rise to.                                                           *)

One(wrong) == IF wrong THEN 1 ELSE 0

Valid(item) ==
  /\ item # OtherType
  /\ item.type \in Kinds /\ item.value \in Texts
  /\ LookupOf[item.type, item.value] # None

(* Fault: a value that its parser refuses is passed over. *)
ItemDetailsLenient(item) ==
  IF item = OtherType THEN 1
  ELSE One(item.type \notin Kinds) + One(item.value \notin Texts) + item.unknown

(* A value is only parsed if the type is known. *)
ItemDetails(item) ==
  IF item = OtherType THEN 1
  ELSE One(item.type \notin Kinds) + One(item.value \notin Texts)
         + One(item.type \in Kinds /\ item.value \in Texts /\ ~Valid(item))
         + item.unknown

(* An array that is too long or empty is still gone through. *)
IndicatorsDetails(field) ==
  IF field \in {Missing, OtherType} THEN 1
  ELSE One(field = <<>> \/ Len(field) > MaxBatch)
         + MapThenSumSet(LAMBDA n : ItemDetails(field[n]), DOMAIN field)

(* Unknown IDs, other types, repetitions. *)
ProvidersDetails(field) ==
  CASE field = Missing -> 0
    [] field \in {OtherType, <<>>} -> 1
    [] OTHER -> Cardinality({n \in DOMAIN field :
                  \/ field[n] \notin KnownProviders
                  \/ \E m \in 1 .. n - 1 : field[m] = field[n]})

Details(body) ==
  LET all == IndicatorsDetails(body.indicators) + ProvidersDetails(body.providers)
               + One(body.include_raw = OtherType) + body.unknown
  IN  IF all > DetailLimit THEN DetailLimit ELSE all

Indicator(item) ==
  [kind |-> item.type, input |-> item.value,
   lookup_value |-> LookupOf[item.type, item.value]]

(* `indicators.push`, of what validate_item returns. *)
Push(indicators, item) ==
  IF Valid(item) THEN Append(indicators, Indicator(item)) ELSE indicators

(* ValidatedRequest, of a body that has no details. *)
Validated(body) ==
  [indicators |-> FoldLeft(Push, <<>>, body.indicators),
   providers |-> IF body.providers = Missing THEN EnabledOrder
                 ELSE body.providers,
   include_raw |-> body.include_raw = TRUE]

-----------------------------------------------------------------------------
(* enrich_admitted: slots, unique pairs and the positions of the slots.     *)

(* Indicators in order, and for each the providers in order. *)
Slots(request) ==
  LET width == Len(request.providers)
  IN  [s \in 1 .. Len(request.indicators) * width |->
         [provider |-> request.providers[((s - 1) % width) + 1],
          indicator |-> request.indicators[((s - 1) \div width) + 1]]]

(* Fault: only what was looked up for any provider is compared. *)
IdentityOfValue(slot) == <<slot.indicator.kind, slot.indicator.lookup_value>>

(* Fault: spellings of one value are not recognised. *)
IdentityOfInput(slot) == <<slot.provider, slot.indicator>>

(* The hash algorithm is told by the lookup value. *)
Identity(slot) ==
  <<slot.provider, slot.indicator.kind, slot.indicator.lookup_value>>

(* `unique`: a slot whose identity is new becomes the next pair.            *)
Place(batch, slot) ==
  LET same == {n \in DOMAIN batch.pairs : Identity(batch.pairs[n]) = Identity(slot)}
  IN  IF same = {}
        THEN [pairs |-> Append(batch.pairs, slot),
              positions |-> Append(batch.positions, Len(batch.pairs) + 1)]
        ELSE [batch EXCEPT !.positions = Append(@, Min(same))]

NoPairs == [pairs |-> <<>>, positions |-> <<>>]

Assemble(slots) == FoldLeft(Place, NoPairs, slots)

-----------------------------------------------------------------------------
(* project. An outcome has the size of its entry without raw report, and    *)
(* the size of its raw report, 0 for none.                                  *)

(* Fault: a report that two slots share is counted once. *)
LeftForRawOnce(outcomes) ==
  LET fits(s, left) == outcomes[s].raw > 0 /\ outcomes[s].raw =< left
      left[s \in 0 .. Len(outcomes)] ==
        IF s = 0 THEN RawBudget
        ELSE IF fits(s, left[s - 1])
                /\ \A t \in 1 .. s - 1 : outcomes[t] # outcomes[s]
             THEN left[s - 1] - outcomes[s].raw ELSE left[s - 1]
  IN  left

(* What is left of the budget after each slot. *)
LeftForRaw(outcomes) ==
  LET fits(s, left) == outcomes[s].raw > 0 /\ outcomes[s].raw =< left
      left[s \in 0 .. Len(outcomes)] ==
        IF s = 0 THEN RawBudget
        ELSE IF fits(s, left[s - 1]) THEN left[s - 1] - outcomes[s].raw
             ELSE left[s - 1]
  IN  left

(* ProviderEntry, with the size of the raw report for `raw`. *)
Entries(request, outcomes) ==
  LET left == LeftForRaw(outcomes)
      entry(s) ==
        [outcome |-> outcomes[s],
         raw |-> IF request.include_raw /\ outcomes[s].raw =< left[s - 1]
                   THEN outcomes[s].raw ELSE 0,
         reason |-> IF ~request.include_raw THEN None
                    ELSE IF outcomes[s].raw = 0 THEN "not_available"
                    ELSE IF outcomes[s].raw > left[s - 1] THEN "response_size_limit"
                    ELSE None]
  IN  [s \in DOMAIN outcomes |-> entry(s)]

Included(entries) == {s \in DOMAIN entries : entries[s].raw > 0}

(* CountingWriter: the envelope without raw reports. *)
EnvelopeSize(entries) ==
  FrameSize + MapThenSumSet(LAMBDA s : entries[s].outcome.size
                              + ReasonSize * One(entries[s].reason # None),
                            DOMAIN entries)

RawSize(entries) == MapThenSumSet(LAMBDA s : entries[s].raw, Included(entries))

(* ,"raw": *)
RawFraming == 7

(* What serde_json writes for the envelope with its raw reports. *)
ResponseSize(entries) ==
  EnvelopeSize(entries) + RawFraming * Cardinality(Included(entries))
    + RawSize(entries)

(* Fault: the fields that carry the raw reports are not counted. *)
EnvelopeFitsBare(entries) == EnvelopeSize(entries) =< EnvelopeLimit

EnvelopeFits(entries) ==
  EnvelopeSize(entries) + RawFraming * Cardinality(Included(entries))
    =< EnvelopeLimit

(* LimitedWriter *)
Writable(entries) == ResponseSize(entries) =< EnvelopeLimit + RawBudget
=============================================================================
