------------------------------- MODULE Batch -------------------------------
(***************************************************************************)
(* One admitted request (enrich_admitted of src/http.rs): its body is read *)
(* chunk by chunk under a size limit and the deadline of the request, it   *)
(* is validated as a whole, its different pairs are looked up concurrently *)
(* and the answers are put into the slots of the response.                 *)
(*                                                                         *)
(* A lookup ends with some outcome at some time: what it does is module    *)
(* SharedLookup's business, and that it ends its property CallersAnswered. *)
(***************************************************************************)
EXTENDS BatchRules

CONSTANTS
  Headers,          \* pairs of contents of Content-Type and Content-Encoding
  Bodies,           \* bodies that are well-formed JSON objects
  Chunks,           \* lengths of the chunks of a body
  MaxRequestBytes,  \* config.max_request_bytes
  Buffered,         \* the 40 of `buffered`
  Outcomes          \* sizes [size, raw] of what a lookup may return

ASSUME ChunksAssumption ==
  Chunks \subseteq Nat \ {0} /\ MaxRequestBytes \in Nat \ {0}
(* An array is a sequence, and what is unknown in an object is counted. *)
Array(field) == field \notin {Missing, OtherType} => field \in Seq(ToSet(field))

ASSUME BodiesAssumption ==
  \A body \in Bodies :
    /\ Array(body.indicators) /\ Array(body.providers)
    /\ body.unknown \in Nat
    /\ body.indicators \notin {Missing, OtherType} =>
         \A n \in DOMAIN body.indicators :
           body.indicators[n] # OtherType => body.indicators[n].unknown \in Nat
ASSUME MarksAssumption ==
  /\ None \notin {"writer", "response_size_limit"}
  /\ Missing \notin {OtherType, <<>>}
  /\ \A body \in Bodies : Details(body) = 0 => Validated(body) # None
(* A batch has at most 20 items (config.rs), of two providers each. *)
ASSUME BufferedAssumption ==
  /\ Buffered \in Nat \ {0}
  /\ MaxBatch * Cardinality(KnownProviders) =< Buffered
ASSUME OutcomesAssumption == Outcomes \subseteq [size : Nat \ {0}, raw : Nat]

VARIABLES
  phase,
  received,   \* bytes of the body that are held
  submitted,  \* history: the body that was accepted
  request,    \* its ValidatedRequest
  batch,      \* pairs, and the positions of the slots among them
  answers,    \* what the lookup of each pair has returned
  collected,  \* unique_results: the pair of each answer that was collected
  response

requestVars == <<submitted, request, batch>>
vars == <<phase, received, requestVars, answers, collected, response>>

NoResponse == [status |-> 0, code |-> None, entries |-> <<>>]

pairs == batch.pairs

TypeOK ==
  /\ phase \in {"headers", "body", "lookups", "answered"}
  /\ received \in 0 .. MaxRequestBytes
  /\ submitted \in Bodies \cup {None}
  /\ (request = None) = (pairs = <<>>)
  /\ DOMAIN answers = DOMAIN pairs
  /\ \A s \in DOMAIN batch.positions : batch.positions[s] \in DOMAIN pairs
  /\ \A n \in DOMAIN collected : collected[n] \in DOMAIN pairs
  /\ response.status \in {0, 200, 400, 408, 413, 415, 422, 500}

Init ==
  /\ phase = "headers"
  /\ received = 0
  /\ submitted = None /\ request = None /\ batch = NoPairs
  /\ answers = <<>> /\ collected = <<>>
  /\ response = NoResponse

Respond(status, code, entries) ==
  /\ phase' = "answered"
  /\ received' = 0
  /\ response' = [status |-> status, code |-> code, entries |-> entries]

Refuse(status, code) ==
  /\ Respond(status, code, <<>>)
  /\ UNCHANGED <<requestVars, answers, collected>>

-----------------------------------------------------------------------------
ReadHeaders ==
  /\ phase = "headers"
  /\ \E h \in Headers :
       IF SupportedMediaType(h[1], h[2])
         THEN /\ phase' = "body"
              /\ UNCHANGED <<received, requestVars, answers, collected,
                             response>>
         ELSE Refuse(415, "unsupported_media_type")

(* Fault: what is held already does not count. *)
ReadChunkAlone ==
  /\ phase = "body"
  /\ \E n \in Chunks :
       /\ n =< MaxRequestBytes
       /\ received' = received + n
       /\ UNCHANGED <<phase, requestVars, answers, collected, response>>

ReadChunk ==
  /\ phase = "body"
  /\ \E n \in Chunks :
       IF n > MaxRequestBytes - received
         THEN Refuse(413, "request_too_large")
         ELSE /\ received' = received + n
              /\ UNCHANGED <<phase, requestVars, answers, collected,
                             response>>

(* Fault: only the wait for the first chunk has a deadline. *)
BodyLateAtFirst ==
  /\ phase = "body"
  /\ received = 0
  /\ Refuse(408, "request_body_timeout")

BodyLate ==
  /\ phase = "body"
  /\ Refuse(408, "request_body_timeout")

(* The connection fails; or it ends well and the JSON is malformed, with a  *)
(* repeated key or not UTF-8; or it is no object.                           *)
BodyInvalid ==
  /\ phase = "body"
  /\ \/ Refuse(400, "invalid_json")
     \/ received > 0 /\ Refuse(422, "validation_error")

BodyEnds ==
  /\ phase = "body" /\ received > 0
  /\ \E body \in Bodies :
       IF Details(body) > 0
         THEN Refuse(422, "validation_error")
         ELSE /\ phase' = "lookups"
              /\ submitted' = body
              /\ request' = Validated(body)
              /\ batch' = Assemble(Slots(request'))
              /\ answers' = [n \in DOMAIN batch'.pairs |-> None]
              /\ received' = 0
              /\ UNCHANGED <<collected, response>>

(* The futures `buffered` polls: those it has taken and not yet handed on.  *)
UnderWay ==
  {n \in DOMAIN pairs : n > Len(collected) /\ n =< Len(collected) + Buffered}

(* Enrichment::lookup returns, before the deadline or because of it. *)
LookupReturns(n) ==
  /\ phase = "lookups"
  /\ n \in UnderWay /\ answers[n] = None
  /\ \E o \in Outcomes :
       answers' = [answers EXCEPT ![n] =
         [identity |-> Identity(pairs[n]), size |-> o.size, raw |-> o.raw]]
  /\ UNCHANGED <<phase, received, requestVars, collected, response>>

(* Fault: answers are taken as they come (buffer_unordered). *)
CollectAny ==
  /\ phase = "lookups"
  /\ \E n \in DOMAIN pairs \ ToSet(collected) :
       answers[n] # None /\ collected' = Append(collected, n)
  /\ UNCHANGED <<phase, received, requestVars, answers, response>>

(* `buffered` yields in the order of the pairs. *)
Collect ==
  /\ phase = "lookups"
  /\ Len(collected) < Len(pairs)
  /\ answers[Len(collected) + 1] # None
  /\ collected' = Append(collected, Len(collected) + 1)
  /\ UNCHANGED <<phase, received, requestVars, answers, response>>

(* The results of the slots, from those of the pairs. *)
Results ==
  [s \in DOMAIN batch.positions |-> answers[collected[batch.positions[s]]]]

(* project, and the deadline for writing. *)
Project ==
  /\ phase = "lookups"
  /\ Len(collected) = Len(pairs)
  /\ LET entries == Entries(request, Results)
     IN  \/ IF ~EnvelopeFits(entries) THEN Respond(500, "envelope", <<>>)
            ELSE IF ~Writable(entries) THEN Respond(500, "writer", <<>>)
            ELSE Respond(200, None, entries)
         \/ Respond(500, "late", <<>>)
  /\ UNCHANGED <<requestVars, answers, collected>>

Next ==
  \/ ReadHeaders \/ ReadChunk \/ BodyLate \/ BodyInvalid \/ BodyEnds
  \/ \E n \in DOMAIN answers : LookupReturns(n)
  \/ Collect \/ Project

(* The deadline of the request passes, and lookups end by it; nothing is    *)
(* assumed of the client.                                                   *)
Fairness ==
  /\ WF_vars(ReadHeaders) /\ WF_vars(BodyLate)
  /\ WF_vars(\E n \in DOMAIN answers : LookupReturns(n))
  /\ WF_vars(Collect) /\ WF_vars(Project)

Spec == Init /\ [][Next]_vars /\ Fairness

-----------------------------------------------------------------------------
(* Properties. *)

Done == response.status = 200

(* Every slot has the answer that was looked up for its own provider and    *)
(* its own value, although duplicates share lookups and lookups end in any  *)
(* order (enrich_admitted: unique, positions, buffered).                    *)
OwnAnswers ==
  Done =>
    LET slots == Slots(request)
    IN  \A s \in DOMAIN slots :
          response.entries[s].outcome.identity =
            <<slots[s].provider, slots[s].indicator.kind,
              slots[s].indicator.lookup_value>>

(* A batch is taken as a whole: there is a slot for every submitted item    *)
(* with every asked provider, in the order of the request, and nothing is   *)
(* looked up for a batch with an item that is not valid (validate_request). *)
WholeBatch ==
  request # None =>
    LET slots == Slots(request)
        providers == IF submitted.providers = Missing THEN EnabledOrder
                     ELSE submitted.providers
    IN  /\ \A n \in DOMAIN submitted.indicators : Valid(submitted.indicators[n])
        /\ Len(slots) = Len(submitted.indicators) * Len(providers)
        /\ \A i \in DOMAIN submitted.indicators, p \in DOMAIN providers :
             LET slot == slots[(i - 1) * Len(providers) + p]
             IN  /\ slot.provider = providers[p]
                 /\ slot.indicator.input = submitted.indicators[i].value

(* A value is looked up once for a provider, however often and in whatever  *)
(* spelling it is submitted; and no lookup of a batch waits for another     *)
(* one: all those whose answers have not been collected are under way, so   *)
(* that the deadline of the request is shared by all of them                *)
(* (enrich_admitted: identity, buffered).                                   *)
EachLookedUpOnce ==
  request # None =>
    /\ \A m, n \in DOMAIN pairs : m # n =>
         \/ pairs[m].provider # pairs[n].provider
         \/ pairs[m].indicator.kind # pairs[n].indicator.kind
         \/ pairs[m].indicator.lookup_value # pairs[n].indicator.lookup_value
    /\ \A n \in DOMAIN pairs : n > Len(collected) => n \in UnderWay

(* The raw reports of a response keep their budget, slots that share one    *)
(* counted each; and one that is left out for its size would have exceeded  *)
(* it with those before it (project, SPEC.md on the raw budget).            *)
RawWithinBudget ==
  Done =>
    /\ RawSize(response.entries) =< RawBudget
    /\ \A s \in DOMAIN response.entries :
         response.entries[s].reason = "response_size_limit" =>
           RawSize(SubSeq(response.entries, 1, s - 1))
             + response.entries[s].outcome.raw > RawBudget

(* The two looks at the size agree: a response whose envelope was found to  *)
(* fit, with the seven bytes of each raw field, is never refused by the     *)
(* writer after its raw reports were attached (project, LimitedWriter).     *)
NoLateOverflow == response.code # "writer"

(* Every admitted request is answered, even if the client never finishes    *)
(* its body (enrich_admitted: timeout_at at each chunk).                    *)
RequestAnswered == phase = "body" ~> phase = "answered"
=============================================================================
