------------------------------- MODULE Consents -------------------------------
(***************************************************************************)
(* A user's consents and what depends on them: subscriptions to alerts,    *)
(* which another service keeps, and the emergency profile                  *)
(* (services/api/app/api/v1/me.py, facades.py, repositories/repo.py).      *)
(*                                                                         *)
(* A consent is checked by one statement and relied upon by a later one;   *)
(* a revocation is several statements and one call per consent.  Handlers  *)
(* interleave between all of them.                                         *)
(*                                                                         *)
(* Abstractions.  One user.  The contents of the profile, its encryption,  *)
(* channels, thresholds and audit entries are left out.                    *)
(***************************************************************************)
EXTENDS Naturals

CONSTANTS
  Askers,         \* concurrent handlers
  ConsentIds,     \* consent records that may be written
  Subs,           \* subscriptions that may be made
  ConsentFaults,  \* "services": calls of the recommendation service fail;
                  \* "crash": handlers die
  Nobody

ALERT == "ALERT_NOTIFICATION"
EMERGENCY == "EMERGENCY_PROFILE"
Types == {ALERT, EMERGENCY}

ASSUME ConsentsAssumption ==
  /\ ConsentFaults \subseteq {"services", "crash"}
  /\ Nobody \notin ConsentIds

AskerPCs == {"idle", "close", "list", "tell", "purge", "subscribe", "put", "erase"}
Asker == [pc : AskerPCs, type : Types, consent : ConsentIds \cup {Nobody},
          list : SUBSET ConsentIds]
Consent == [state : {"unused", "granted", "refusal"}, type : Types, revoked : BOOLEAN,
            expired : BOOLEAN]
Sub == [status : {"none", "ACTIVE", "REVOKED"}, consent : ConsentIds \cup {Nobody},
        late : BOOLEAN]

VARIABLES
  consent,    \* consent[c]: a row of identity.consents
  asker,      \* asker[a]: a handler's locals and the await it is parked at
  sub,        \* sub[s]: a row of the recommendation service; late is history: made
              \* after its consent was revoked, by a handler that had checked before
  profile,    \* the user has a row in identity.emergency_profiles
  account,    \* "open", "closing" (users.deleted_at is set) or "closed" (the job ended)
  unreached,  \* history: consents whose subscriptions no revocation reached
  kept        \* history: the profile was stored after the check of its consent lapsed,
              \* or the handler that was to delete it died

consentVars == <<consent, asker, sub, profile, account, unreached, kept>>

-----------------------------------------------------------------------------
AtRest == [pc |-> "idle", type |-> ALERT, consent |-> Nobody, list |-> {}]

ConsentsInit ==
  /\ consent = [c \in ConsentIds |->
       [state |-> "unused", type |-> ALERT, revoked |-> FALSE, expired |-> FALSE]]
  /\ asker = [a \in Askers |-> AtRest]
  /\ sub = [s \in Subs |-> [status |-> "none", consent |-> Nobody, late |-> FALSE]]
  /\ profile = FALSE
  /\ account = "open"
  /\ unreached = {}
  /\ kept = FALSE

AskerAt(a, p) == asker[a].pc = p
Continue(a, p) == asker' = [asker EXCEPT ![a].pc = p]
Answered(a) == asker' = [asker EXCEPT ![a] = AtRest]

OfType(type)  == {c \in ConsentIds : consent[c].state # "unused" /\ consent[c].type = type}
Granted(type) == {c \in OfType(type) : consent[c].state = "granted" /\ ~consent[c].revoked}

Record(state, type, revoked) ==
  \E c \in {d \in ConsentIds : consent[d].state = "unused"} :
    consent' = [consent EXCEPT ![c] =
      [state |-> state, type |-> type, revoked |-> revoked, expired |-> FALSE]]

-----------------------------------------------------------------------------
(* POST /consents.                                                         *)

\* Consents.record with granted = True: one INSERT.
Grant(a) ==
  /\ AskerAt(a, "idle") /\ account = "open"
  /\ \E type \in Types : Record("granted", type, FALSE)
  /\ UNCHANGED <<asker, sub, profile, account, unreached, kept>>

\* expires_at passes.
Expire(c) ==
  /\ consent[c].state = "granted" /\ ~consent[c].expired
  /\ consent' = [consent EXCEPT ![c].expired = TRUE]
  /\ UNCHANGED <<asker, sub, profile, account, unreached, kept>>

\* granted = False: the granted records of the type are found first ...
BeginRevoke(a) ==
  /\ AskerAt(a, "idle") /\ account = "open"
  /\ \E type \in Types :
       asker' = [asker EXCEPT ![a] =
         [pc |-> "close", type |-> type, consent |-> Nobody, list |-> Granted(type)]]
  /\ UNCHANGED <<consent, sub, profile, account, unreached, kept>>

\* ... closed one by one ...
Close(a) ==
  /\ AskerAt(a, "close")
  /\ \E c \in asker[a].list :
       /\ consent' = [consent EXCEPT ![c].revoked = TRUE]
       /\ asker' = [asker EXCEPT ![a].list = @ \ {c}]
  /\ UNCHANGED <<sub, profile, account, unreached, kept>>

\* ... and the refusal is recorded.
Refuse(a) ==
  /\ AskerAt(a, "close") /\ asker[a].list = {}
  /\ Record("refusal", asker[a].type, TRUE)
  /\ Continue(a, IF asker[a].type = ALERT THEN "list" ELSE "purge")
  /\ UNCHANGED <<sub, profile, account, unreached, kept>>

\* Mutant: only the consents that are still granted.
ListGranted(a) ==
  /\ AskerAt(a, "list")
  /\ asker' = [asker EXCEPT ![a].pc = "tell", ![a].list = Granted(asker[a].type)]
  /\ UNCHANGED <<consent, sub, profile, account, unreached, kept>>

\* Every consent of the type the user ever gave.
ListConsents(a) ==
  /\ AskerAt(a, "list")
  /\ asker' = [asker EXCEPT ![a].pc = "tell", ![a].list = OfType(asker[a].type)]
  /\ UNCHANGED <<consent, sub, profile, account, unreached, kept>>

\* RecommendationClient.revoke_consent, revoke_by_consent: one UPDATE over there.
TellRevoked(a) ==
  /\ AskerAt(a, "tell")
  /\ \E c \in asker[a].list :
       /\ sub' = [s \in Subs |-> IF sub[s].status = "ACTIVE" /\ sub[s].consent = c
                                   THEN [sub[s] EXCEPT !.status = "REVOKED"] ELSE sub[s]]
       /\ asker' = [asker EXCEPT ![a].list = @ \ {c}]
  /\ UNCHANGED <<consent, profile, account, unreached, kept>>

\* The error is dropped, and nothing tries again.
TellFails(a) ==
  /\ "services" \in ConsentFaults /\ AskerAt(a, "tell")
  /\ \E c \in asker[a].list :
       /\ unreached' = unreached \cup {c}
       /\ asker' = [asker EXCEPT ![a].list = @ \ {c}]
  /\ UNCHANGED <<consent, sub, profile, account, kept>>

Told(a) ==
  /\ AskerAt(a, "tell") /\ asker[a].list = {}
  /\ Answered(a)
  /\ UNCHANGED <<consent, sub, profile, account, unreached, kept>>

\* EmergencyProfiles.delete: after a revocation, by DELETE, or closing the account.
DeleteProfile(a) ==
  /\ asker[a].pc \in {"idle", "purge", "erase"}
  /\ AskerAt(a, "idle") => account = "open"
  /\ Answered(a)
  /\ profile' = FALSE /\ kept' = FALSE
  /\ account' = IF AskerAt(a, "erase") THEN "closed" ELSE account
  /\ UNCHANGED <<consent, sub, unreached>>

-----------------------------------------------------------------------------
(* What needs a consent.                                                   *)

\* create_subscription reads the consent: granted and not revoked; expiry is not asked.
BeginSubscribe(a) ==
  /\ AskerAt(a, "idle") /\ account = "open"
  /\ \E c \in Granted(ALERT) :
       asker' = [asker EXCEPT ![a].pc = "subscribe", ![a].consent = c]
  /\ UNCHANGED <<consent, sub, profile, account, unreached, kept>>

\* The recommendation service stores it; the answer may get lost, which changes nothing.
Subscribe(a) ==
  /\ AskerAt(a, "subscribe")
  /\ \E s \in {t \in Subs : sub[t].status = "none"} :
       sub' = [sub EXCEPT ![s] = [status |-> "ACTIVE", consent |-> asker[a].consent,
                                  late |-> consent[asker[a].consent].revoked]]
  /\ Answered(a)
  /\ UNCHANGED <<consent, profile, account, unreached, kept>>

SubscribeFails(a) ==
  /\ "services" \in ConsentFaults /\ AskerAt(a, "subscribe")
  /\ Answered(a)
  /\ UNCHANGED <<consent, sub, profile, account, unreached, kept>>

\* DELETE /alert-subscriptions/{id}.
Unsubscribe(a, s) ==
  /\ AskerAt(a, "idle") /\ account = "open" /\ sub[s].status = "ACTIVE"
  /\ sub' = [sub EXCEPT ![s].status = "REVOKED"]
  /\ UNCHANGED <<consent, asker, profile, account, unreached, kept>>

\* put_emergency_profile: Consents.active asks for expiry too.
BeginPut(a) ==
  /\ AskerAt(a, "idle") /\ account = "open"
  /\ \E c \in Granted(EMERGENCY) : ~consent[c].expired
  /\ Continue(a, "put")
  /\ UNCHANGED <<consent, sub, profile, account, unreached, kept>>

\* EmergencyProfiles.put: one row per user, found and then written by its id, which is as
\* if at once: a deletion in between is the same as one just after.
Put(a) ==
  /\ AskerAt(a, "put")
  /\ Answered(a)
  /\ profile' = TRUE
  /\ kept' = (Granted(EMERGENCY) = {} \/ account # "open")
  /\ UNCHANGED <<consent, sub, account, unreached>>

\* POST /me/data-jobs, kind DELETE: deleted_at, then trips, then the profile.
BeginErase(a) ==
  /\ AskerAt(a, "idle") /\ account = "open"
  /\ account' = "closing"
  /\ Continue(a, "erase")
  /\ UNCHANGED <<consent, sub, profile, unreached, kept>>

\* The process stops in the middle of a handler.
AskerDies(a) ==
  /\ "crash" \in ConsentFaults /\ ~AskerAt(a, "idle")
  /\ Answered(a)
  /\ IF asker[a].pc \in {"close", "list", "tell"} /\ asker[a].type = ALERT
       THEN unreached' = unreached \cup OfType(ALERT) ELSE UNCHANGED unreached
  /\ IF asker[a].pc \in {"close", "purge"} /\ asker[a].type = EMERGENCY
       THEN kept' = profile ELSE UNCHANGED kept
  /\ UNCHANGED <<consent, sub, profile, account>>

-----------------------------------------------------------------------------
ConsentsNext ==
  \/ \E a \in Askers :
       \/ Grant(a) \/ BeginRevoke(a) \/ Close(a) \/ Refuse(a) \/ ListConsents(a)
       \/ TellRevoked(a) \/ TellFails(a) \/ Told(a) \/ DeleteProfile(a)
       \/ BeginSubscribe(a) \/ Subscribe(a) \/ SubscribeFails(a)
       \/ \E s \in Subs : Unsubscribe(a, s)
       \/ BeginPut(a) \/ Put(a) \/ BeginErase(a) \/ AskerDies(a)
  \/ \E c \in ConsentIds : Expire(c)

ConsentsSpec == ConsentsInit /\ [][ConsentsNext]_consentVars

-----------------------------------------------------------------------------
ConsentsTypeOK ==
  /\ consent \in [ConsentIds -> Consent]
  /\ asker \in [Askers -> Asker]
  /\ sub \in [Subs -> Sub]
  /\ profile \in BOOLEAN /\ kept \in BOOLEAN
  /\ account \in {"open", "closing", "closed"}
  /\ unreached \subseteq ConsentIds

\* A handler that is still going to tell the recommendation service about c.
WillTell(a, c) ==
  /\ asker[a].type = ALERT
  /\ \/ asker[a].pc \in {"close", "list"}
     \/ AskerAt(a, "tell") /\ c \in asker[a].list

\* An alert subscription whose consent was revoked is being revoked, unless the call was
\* dropped or the subscription was made by a handler that had looked at the consent
\* before; the same of the medical profile, its consent and the account
\* (me.py post_consent, facades.py create_subscription, repo.py Consents.record).
NothingOutlivesConsent ==
  /\ \A s \in Subs : sub[s].status = "ACTIVE" =>
       \/ ~consent[sub[s].consent].revoked
       \/ sub[s].late \/ sub[s].consent \in unreached
       \/ \E a \in Askers : WillTell(a, sub[s].consent)
  /\ profile /\ ~kept =>
       /\ account # "closed"
       /\ \/ Granted(EMERGENCY) # {}
          \/ \E a \in Askers : asker[a].type = EMERGENCY /\ asker[a].pc \in {"close", "purge"}
=============================================================================
