---------------------------- MODULE DataValidity ----------------------------
(***************************************************************************)
(* Per-field validity of tracked data (tracking/validity.rs): when the     *)
(* field was last accepted and from which kind of source.  Times are the   *)
(* i64 milliseconds of the code, scaled down by the constants.  The fields *)
(* last_source and next_reduce_forward are written but never read by the   *)
(* program and are left out.                                               *)
(***************************************************************************)
EXTENDS Integers

CONSTANTS
  TRACK_STALE,         (* age up to which SBS output reports data           *)
  TRACK_EXPIRE,        (* silence after which data and aircraft expire      *)
  TRACK_EXPIRE_JAERO   (* the same for data that came over the Jaero link   *)

ASSUME ExpireAssumption ==
  /\ TRACK_STALE \in Nat
  /\ TRACK_EXPIRE \in Nat \ {0}
  /\ TRACK_EXPIRE_JAERO \in Nat \ {0}

(* The kinds of source, in the order the derived PartialOrd of the enum    *)
(* compares them: Invalid is lowest, Priority highest.                     *)
DataSource == 0 .. 12
InvalidSource == 0
ModeS == 5
Jaero == 6
Adsb  == 11

Validity == [updated : Int, source : DataSource]

NewValidity == [updated |-> 0, source |-> InvalidSource]

(* A source of lower rank than the one on record leaves the record alone,  *)
(* however old that record is.                                             *)
Accept(v, source, now) ==
  IF source >= v.source THEN [updated |-> now, source |-> source] ELSE v

IsValid(v, now, expiration) ==
  /\ v.source # InvalidSource
  /\ now < v.updated + (IF v.source = Jaero THEN TRACK_EXPIRE_JAERO ELSE expiration)

=============================================================================
