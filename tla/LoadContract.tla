----------------------------- MODULE LoadContract -----------------------------
(***************************************************************************)
(* What the load command promises, with no packet, cursor or heap in it:   *)
(* requests of a legal type and size come in one at a time, and each is    *)
(* accepted exactly when the bytes it names lie in one writable region of  *)
(* its memory type and start on an aligned address.                        *)
(***************************************************************************)
EXTENDS CfsMemory

CONSTANTS MaxLoadRam, MaxLoadEeprom, MemoryAlignment

VARIABLES
  pending,   \* the request being judged, as a set of at most one
  verdict    \* what was decided on the last request

contractVars == <<pending, verdict>>

Limit(mem_type) == IF mem_type = MM_RAM THEN MaxLoadRam ELSE MaxLoadEeprom

WellFormed(r) ==
  /\ r.mem_type \in {MM_RAM, MM_EEPROM}
  /\ r.num_of_bytes \in 1 .. Limit(r.mem_type)

Acceptable(r) ==
  /\ RegionHolds(r.addr, r.mem_type, r.num_of_bytes)
  /\ r.addr % MemoryAlignment = 0

ContractInit == pending = {} /\ verdict = "none"

Submit ==
  /\ pending = {}
  /\ \E r \in pending' : pending' = {r} /\ WellFormed(r)
  /\ UNCHANGED verdict

Decide ==
  /\ \E r \in pending : verdict' = IF Acceptable(r) THEN "accepted" ELSE "rejected"
  /\ pending' = {}

ContractNext == Submit \/ Decide

Contract == ContractInit /\ [][ContractNext]_contractVars

=============================================================================
