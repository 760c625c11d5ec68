--------------------------- MODULE MCSharedLookup ---------------------------
(***************************************************************************)
(* Instances of SharedLookup for TLC.                                      *)
(***************************************************************************)
EXTENDS SharedLookup, TLC

CONSTANTS k1, k2, p1, p2

(* All keys of one provider. *)
SameProvider == [k \in Keys |-> p1]

ProviderEach == (k1 :> p1) @@ (k2 :> p2)

(* Addresses at AbuseIPDB; an address there and a URL at VirusTotal. *)
OneAbuseipdb == [p \in Providers |-> "abuseipdb"]
Addresses == [k \in Keys |-> "ip"]
OneOfEach == (p1 :> "abuseipdb") @@ (p2 :> "virustotal")
AddressAndUrl == (k1 :> "ip") @@ (k2 :> "url")

OnePermit == [p \in Providers |-> 1]

(* Sound under SameProvider, which does not tell the keys apart. *)
CallerAndKeySymmetry == Permutations(Callers) \cup Permutations(Keys)
=============================================================================
