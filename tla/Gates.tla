------------------------------- MODULE Gates -------------------------------
(***************************************************************************)
(* Who may prompt and how often: a prompt passes two gates, the socket     *)
(* that a signed-in user opened and the bucket of the session.  They share *)
(* the clock and the memory of one server process, which a restart clears. *)
(***************************************************************************)
EXTENDS SignIn, PromptBucket

vars == <<now, signInVars, bucketVars>>

Init == SignInInit /\ BucketInit

\* Mutant: the bucket is taken before the session is looked for.
PromptUnowned(t, s) ==
    /\ socket[t] # Nobody
    /\ Consume(s)
    /\ UNCHANGED signInVars

\* send_prompt and retry_last: mustSession and then the bucket.
Prompt(t, s) ==
    /\ Owns(t, s)
    /\ Consume(s)
    /\ UNCHANGED signInVars

\* delete_session: store.delete, and then the bucket.
DeleteSession(t, s) == Delete(t, s) /\ Drop(s)

CreateSession(t, s) == Create(t, s) /\ UNCHANGED bucketVars

Next ==
    \/ Handshake /\ UNCHANGED bucketVars
    \/ Sockets /\ UNCHANGED bucketVars
    \/ \E t \in Tab, s \in Sess :
          CreateSession(t, s) \/ DeleteSession(t, s) \/ Prompt(t, s)
    \/ Restart /\ Forget
    \/ Tick /\ UNCHANGED <<signInVars, bucketVars>>

Spec == Init /\ [][Next]_vars

-----------------------------------------------------------------------------
\* Every variable of both has its type.
TypeOK == SignInTypeOK /\ BucketTypeOK

\* The map of buckets does not outgrow the sessions: a bucket is there for a
\* session that exists, and a deleted session leaves none (index.ts:796-798,
\* 859-863).
BucketsOfSessions == \A s \in keys : owner[s].user # Nobody
=============================================================================
