---------------------------- MODULE MachineKeys ----------------------------
(***************************************************************************)
(* Machine authentication in one isolate: the key cache that requests in   *)
(* flight share (status-backend/auth, auth/cloudflare).                    *)
(*                                                                         *)
(* The issuer rotates its published keys.  A request looks for the key of  *)
(* its token in the cache; a miss makes it download the keys on its own,   *)
(* without a lock, and whoever ends last is what the cache holds, stamped  *)
(* with the time of its end.                                               *)
(*                                                                         *)
(* Abstractions: all keys are of one algorithm; issuer, audience, subject  *)
(* and scopes are right in every token; a token lives as long as allowed.  *)
(* The trust is one with a remote set of keys: keys that are part of the   *)
(* build (embedded_keys) never change and are neither cached nor fetched.  *)
(***************************************************************************)
EXTENDS Naturals

CONSTANTS
  Callers,       \* requests that may be in flight together
  SigningKeys,
  Ttl,           \* the cache is believed for ten minutes,
  Reload,        \* and for thirty seconds even about an unknown key
  Deadline,      \* of a download, five seconds
  Life,          \* longest life of a token
  Skew,          \* tolerated difference of clocks
  LastInstant,   \* bound: instants
  Rotations,     \* bound: changes of the published set
  NoKeys

VARIABLES
  time,
  published,  \* the keys the issuer publishes now
  shown,      \* shown[k]: when k was first and last published, NoKeys: never
  changed,    \* when the published set last changed
  rotations,
  keyCache,   \* CACHE: keys and time of the download's end
  call,       \* the requests under way
  ruling      \* what the last step decided, and for what token

issuer == <<published, shown, changed, rotations>>

Free == [at |-> "free", token |-> NoKeys, since |-> 0, body |-> NoKeys]
NoRuling == [verdict |-> "none", key |-> NoKeys, kid |-> TRUE]

KInit ==
  /\ time = 0 /\ rotations = 0 /\ changed = 0
  /\ \E k \in SigningKeys : published = {k}
  /\ shown = [k \in SigningKeys |-> IF k \in published THEN <<0, 0>> ELSE NoKeys]
  /\ keyCache = NoKeys /\ call = [c \in Callers |-> Free]
  /\ ruling = NoRuling

\* A key once withdrawn is not published again.
Rotate == \E keys \in (SUBSET SigningKeys) \ {{}, published} :
  /\ rotations < Rotations
  /\ \A k \in keys \ published : shown[k] = NoKeys
  /\ published' = keys /\ changed' = time /\ rotations' = rotations + 1
  /\ shown' = [k \in SigningKeys |->
                 IF k \in keys \ published THEN <<time, time>> ELSE shown[k]]
  /\ ruling' = NoRuling
  /\ UNCHANGED <<time, keyCache, call>>

\* A deadline that has come ends its download before time goes on.
Advance ==
  /\ time < LastInstant
  /\ \A c \in Callers : call[c].at \in {"fetch", "body"} => time - call[c].since < Deadline
  /\ time' = time + 1
  /\ shown' = [k \in SigningKeys |->
                 IF k \in published THEN <<shown[k][1], time'>> ELSE shown[k]]
  /\ ruling' = NoRuling
  /\ UNCHANGED <<published, changed, rotations, keyCache, call>>

\* select: exactly one key matches; without a kid every key does.
Selected(keys, t) == {k \in keys : t.kid => k = t.key}
Finds(keys, t) == \E k \in keys : Selected(keys, t) = {k}

\* verify_machine: the signature under the selected key, then the dates.
Current(t) == t.iat + Life + Skew > time /\ t.iat <= time + Skew

Decide(keys, t) ==
  ruling' = [key |-> t.key, kid |-> t.kid,
             verdict |-> IF Selected(keys, t) # {t.key} THEN "refused"
                         ELSE IF Current(t) THEN "accepted" ELSE "expired"]

\* Mutant: the cache never grows old.
BelievedForEver == keyCache # NoKeys

Believed == keyCache # NoKeys /\ time - keyCache.at < Ttl

\* A token may be used as soon as it is signed, or be kept for later.
Presentable ==
  {[key |-> k, kid |-> b, iat |-> shown[k][i]] :
     k \in {k \in SigningKeys : shown[k] # NoKeys}, b \in BOOLEAN, i \in {1, 2}}

\* remote_keys up to its await: the cached keys, a cached refusal, or a
\* download of its own.
Arrive(c) == \E t \in Presentable :
  /\ call[c].at = "free"
  /\ \/ /\ Believed /\ (Finds(keyCache.keys, t) \/ time - keyCache.at < Reload)
        /\ Decide(keyCache.keys, t)
        /\ UNCHANGED call
     \/ /\ ~(Believed /\ (Finds(keyCache.keys, t) \/ time - keyCache.at < Reload))
        /\ call' = [call EXCEPT ![c] =
                      [at |-> "fetch", token |-> t, since |-> time, body |-> NoKeys]]
        /\ ruling' = NoRuling
  /\ UNCHANGED <<time, issuer, keyCache>>

\* The issuer answers with what it publishes at that moment.
Answer(c) ==
  /\ call[c].at = "fetch"
  /\ call' = [call EXCEPT ![c].at = "body", ![c].body = published]
  /\ ruling' = NoRuling
  /\ UNCHANGED <<time, issuer, keyCache>>

\* The rest of remote_keys, and verify_machine.
Downloaded(c) ==
  /\ call[c].at = "body"
  /\ keyCache' = [keys |-> call[c].body, at |-> time]
  /\ call' = [call EXCEPT ![c] = Free]
  /\ Decide(call[c].body, call[c].token)
  /\ UNCHANGED <<time, issuer>>

\* A timeout, a redirect, an unreadable body: the cache stays as it was.
DownloadFails(c) ==
  /\ call[c].at \in {"fetch", "body"}
  /\ call' = [call EXCEPT ![c] = Free]
  /\ ruling' = NoRuling
  /\ UNCHANGED <<time, issuer, keyCache>>

KNext == \/ Rotate \/ Advance
         \/ \E c \in Callers : Arrive(c) \/ Answer(c) \/ Downloaded(c) \/ DownloadFails(c)

-----------------------------------------------------------------------------
KTypeOK ==
  /\ time \in 0 .. LastInstant /\ published \subseteq SigningKeys
  /\ \A k \in published : shown[k][2] = time
  /\ keyCache # NoKeys => keyCache.at <= time /\ keyCache.keys \subseteq SigningKeys
  /\ \A c \in Callers :
       /\ call[c].at \in {"free", "fetch", "body"}
       /\ call[c].at # "free" => time <= call[c].since + Deadline
  /\ ruling.verdict \in {"none", "accepted", "expired", "refused"}

\* A withdrawn key stops being accepted within Ttl plus the deadline of one
\* download, whichever of the concurrent downloads wrote the cache last; and
\* nobody is refused for long: a token that names its key is refused only
\* while that key is younger than Reload plus a download, one that names none
\* only while the published set is younger than Ttl plus a download, or
\* ambiguous (remote_keys).
KeysFollowIssuer ==
  LET t == ruling
  IN /\ t.verdict = "accepted" => time < shown[t.key][2] + Ttl + Deadline
     /\ t.verdict = "refused" /\ t.kid /\ t.key \in published =>
          time < shown[t.key][1] + Reload + Deadline
     /\ t.verdict = "refused" /\ ~t.kid /\ published = {t.key} =>
          time < changed + Ttl + Deadline
=============================================================================
