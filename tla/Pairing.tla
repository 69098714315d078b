------------------------------ MODULE Pairing ------------------------------
(***************************************************************************)
(* `vvibe login`: the command asks the server for a code, the user enters  *)
(* it in the browser, and the command polls until the server hands it the  *)
(* new device token.                                                       *)
(*                                                                         *)
(* The server's handlers are synchronous from the first statement to the   *)
(* answer, so that each is one action; the answer to a poll then travels   *)
(* to the command and may be lost.  Time is the passing of the two         *)
(* deadlines of a code: the server's, and later the command's own.         *)
(***************************************************************************)
EXTENDS DeviceTokens

CONSTANTS
    Code,          \* pairing codes, one for each `vvibe login`
    MaxBlips       \* answers that are lost

ASSUME PairingAssumption == MaxBlips \in Nat

VARIABLES
    rows,          \* the table pairing_codes
    due,           \* codes whose expires_at has passed
    late,          \* codes whose deadline at the command has passed
    cli,           \* cli[k]: the command that started code k
    minted,        \* tokens minted so far
    blips          \* answers lost so far

pairingVars == <<rows, due, late, cli, minted, blips>>

PairStatus == {"none", "pending", "approved", "claimed", "expired"}

Row == [status : PairStatus, stash : Token \cup {NoToken}]

\* Where the command is, the machine it runs on, and the answer on its way.
\* "asking" lasts from the look at the deadline, over the sleep, to the answer.
Cli == [at : {"start", "waiting", "asking", "answered", "paired", "failed", "quit"},
        machine : Machine,
        status : PairStatus,
        token : Token \cup {NoToken}]

-----------------------------------------------------------------------------
(* The table pairing_codes *)

\* Mutant: the token of an expired code is not wiped.
SweptKeepingTokens(table) ==
    [k \in Code |->
        IF k \in due /\ table[k].status \in {"pending", "approved"}
        THEN [table[k] EXCEPT !.status = "expired"]
        ELSE table[k]]

\* expireOldPairingCodes, which every handler runs before it looks at a code.
Swept(table) ==
    [k \in Code |->
        IF k \in due /\ table[k].status \in {"pending", "approved"}
        THEN [status |-> "expired", stash |-> NoToken]
        ELSE table[k]]

-----------------------------------------------------------------------------
(* The server *)

\* POST pair-init.  The command prints the code and the user may approve it.
PairInit(k) ==
    /\ cli[k].at = "start"
    /\ rows' = [rows EXCEPT ![k] = [status |-> "pending", stash |-> NoToken]]
    /\ cli' = [cli EXCEPT ![k].at = "waiting"]
    /\ UNCHANGED <<due, late, minted, blips, tokens, saved>>

\* Mutant: the token is handed out and the code stays approved.
AnswerUnclaimed(k) ==
    /\ cli[k].at = "asking"
    /\ rows' = Swept(rows)
    /\ cli' = [cli EXCEPT ![k] = [@ EXCEPT !.at = "answered",
                                           !.status = rows'[k].status,
                                           !.token = rows'[k].stash]]
    /\ UNCHANGED <<due, late, minted, blips, tokens, saved>>

\* GET pair-status: an approved code is claimed before the token is sent.
AnswerPoll(k) ==
    /\ cli[k].at = "asking"
    /\ LET table == Swept(rows)
           row   == table[k]
       IN  /\ rows' = IF row.status = "approved"
                      THEN [table EXCEPT ![k] = [status |-> "claimed",
                                                 stash |-> NoToken]]
                      ELSE table
           /\ cli' = [cli EXCEPT ![k] = [@ EXCEPT !.at = "answered",
                                                  !.status = row.status,
                                                  !.token = row.stash]]
    /\ UNCHANGED <<due, late, minted, blips, tokens, saved>>

\* Mutant: a code that is approved already is approved anew.
ApproveAnew(k) ==
    /\ rows[k].status # "none"
    /\ LET table == Swept(rows)
       IN  IF table[k].status \in {"pending", "approved"}
           THEN /\ minted < MaxTokens
                /\ minted' = minted + 1
                /\ rows' = [table EXCEPT ![k] = [status |-> "approved",
                                                 stash |-> minted']]
                /\ tokens' = tokens \cup {minted'}
           ELSE rows' = table /\ UNCHANGED <<minted, tokens>>
    /\ UNCHANGED <<due, late, cli, blips, saved>>

\* POST pair-approve, from any tab that shows the code.
Approve(k) ==
    /\ rows[k].status # "none"
    /\ LET table == Swept(rows)
       IN  IF table[k].status = "pending"
           THEN /\ minted < MaxTokens
                /\ minted' = minted + 1
                /\ rows' = [table EXCEPT ![k] = [status |-> "approved",
                                                 stash |-> minted']]
                /\ tokens' = tokens \cup {minted'}
           ELSE rows' = table /\ UNCHANGED <<minted, tokens>>
    /\ UNCHANGED <<due, late, cli, blips, saved>>

\* GET pair-lookup, when the page that shows the code is opened.
Lookup(k) ==
    /\ rows[k].status # "none"
    /\ rows' = Swept(rows)
    /\ UNCHANGED <<due, late, cli, minted, blips, tokens, saved>>

-----------------------------------------------------------------------------
(* The command *)

\* The deadline is not over: the command sleeps and then asks.
Poll(k) ==
    /\ cli[k].at = "waiting" /\ k \notin late
    /\ cli' = [cli EXCEPT ![k].at = "asking"]
    /\ UNCHANGED <<rows, due, late, minted, blips, tokens, saved>>

\* The status tells the command to wait, to finish or to give up; "claimed" is
\* one it does not expect.
NextStep(status) ==
    CASE status = "approved" -> "paired"
      [] status = "pending"  -> "waiting"
      [] OTHER               -> "failed"

\* The answer arrives; a token goes into client.json.
TakeAnswer(k) ==
    /\ cli[k].at = "answered"
    /\ LET to == NextStep(cli[k].status)
       IN  /\ cli' = [cli EXCEPT ![k].at = to]
           /\ saved' = IF to = "paired"
                       THEN [saved EXCEPT ![cli[k].machine] = cli[k].token]
                       ELSE saved
    /\ UNCHANGED <<rows, due, late, minted, blips, tokens>>

\* The request or its answer is lost, or refused by the rate limit: "keep polling".
Blip(k) ==
    /\ cli[k].at \in {"asking", "answered"}
    /\ blips < MaxBlips
    /\ blips' = blips + 1
    /\ cli' = [cli EXCEPT ![k].at = "waiting", ![k].token = NoToken]
    /\ UNCHANGED <<rows, due, late, minted, tokens, saved>>

\* Mutant: the deadline is looked at only until the first answer.
GiveUpUnanswered(k) ==
    /\ cli[k].at = "waiting" /\ k \in late
    /\ cli[k].status = "none"
    /\ cli' = [cli EXCEPT ![k].at = "failed"]
    /\ UNCHANGED <<rows, due, late, minted, blips, tokens, saved>>

\* The command's loop looks at its deadline before it sleeps and polls.
GiveUp(k) ==
    /\ cli[k].at = "waiting" /\ k \in late
    /\ cli' = [cli EXCEPT ![k].at = "failed"]
    /\ UNCHANGED <<rows, due, late, minted, blips, tokens, saved>>

\* Ctrl-C.
Quit(k) ==
    /\ cli[k].at \in {"waiting", "asking", "answered"}
    /\ cli' = [cli EXCEPT ![k].at = "quit", ![k].token = NoToken]
    /\ UNCHANGED <<rows, due, late, minted, blips, tokens, saved>>

-----------------------------------------------------------------------------
(* Time *)

\* The command is at work, and looks at its deadline.
Active(k) == cli[k].at \in {"waiting", "asking", "answered"}

\* Ten minutes after pair-init; afterwards only while somebody looks.
FallDue(k) ==
    /\ k \notin due
    /\ rows[k].status \in {"pending", "approved"} \/ Active(k)
    /\ due' = due \cup {k}
    /\ UNCHANGED <<rows, late, cli, minted, blips, tokens, saved>>

\* Ten minutes after its answer.
FallLate(k) ==
    /\ k \in due \ late /\ Active(k)
    /\ late' = late \cup {k}
    /\ UNCHANGED <<rows, due, cli, minted, blips, tokens, saved>>

-----------------------------------------------------------------------------
PairingInit ==
    /\ TokensInit
    /\ rows = [k \in Code |-> [status |-> "none", stash |-> NoToken]]
    /\ due = {}
    /\ late = {}
    /\ \E on \in [Code -> Machine] :
          cli = [k \in Code |-> [at |-> "start", machine |-> on[k],
                                 status |-> "none", token |-> NoToken]]
    /\ minted = 0
    /\ blips = 0

PairingNext ==
    \E k \in Code :
        \/ PairInit(k)
        \/ AnswerPoll(k)
        \/ Approve(k)
        \/ Lookup(k)
        \/ Poll(k)
        \/ TakeAnswer(k)
        \/ Blip(k)
        \/ GiveUp(k)
        \/ Quit(k)
        \/ FallDue(k)
        \/ FallLate(k)

\* The clock runs, the command polls and the server answers.
PairingFairness ==
    \A k \in Code :
        /\ WF_pairingVars(Poll(k))
        /\ WF_pairingVars(AnswerPoll(k))
        /\ WF_pairingVars(TakeAnswer(k))
        /\ WF_pairingVars(GiveUp(k))
        /\ WF_pairingVars(FallDue(k))
        /\ WF_pairingVars(FallLate(k))

PairingSpec ==
    /\ PairingInit
    /\ [][PairingNext]_<<tokens, saved, pairingVars>>
    /\ PairingFairness

-----------------------------------------------------------------------------
(* What pairing promises *)

\* Where the token of a code is.  A code is dead from its deadline on, though
\* its row says so only after the next sweep.
PlaceOf(k) ==
    CASE cli[k].at = "paired" -> "received"
      [] cli[k].at # "paired" /\ cli[k].token # NoToken -> "sent"
      [] OTHER ->
            IF k \in due \/ rows[k].status \in {"claimed", "expired"} THEN "lost"
            ELSE IF rows[k].status = "approved" THEN "held" ELSE "open"

GiftOf(k) ==
    CASE PlaceOf(k) \in {"sent", "received"} -> cli[k].token
      [] PlaceOf(k) = "held" -> rows[k].stash
      [] OTHER -> NoToken

H == INSTANCE Handover WITH
        Login   <- Code,
        machine <- [k \in Code |-> cli[k].machine],
        place   <- [k \in Code |-> PlaceOf(k)],
        gift    <- [k \in Code |-> GiftOf(k)],
        granted <- minted,
        kept    <- saved

\* Pairing is a handover: one new token for a login, to its machine or to
\* nobody, and a chance that is lost never comes back (pairing.ts:77-147).
Promise == H!Spec

-----------------------------------------------------------------------------
(* Properties *)

\* Every variable has its type.
PairingTypeOK ==
    /\ tokens \subseteq 1..minted
    /\ saved \in [Machine -> 0..minted]
    /\ rows \in [Code -> Row]
    /\ late \subseteq due /\ due \subseteq Code
    /\ cli \in [Code -> Cli]
    /\ minted \in 0..MaxTokens
    /\ blips \in 0..MaxBlips

\* A token in clear is in one place only: in the row of its code, on its way to
\* the command, or in the command that was paired by it.  In particular it is
\* handed out once, however polls, approvals and expiry interleave.
TokenInOnePlace ==
    \A k1, k2 \in Code :
        /\ rows[k1].stash # NoToken => rows[k1].stash # cli[k2].token
        /\ k1 # k2 /\ rows[k1].stash # NoToken => rows[k1].stash # rows[k2].stash
        /\ k1 # k2 /\ cli[k1].token # NoToken => cli[k1].token # cli[k2].token

\* Only an approved code still holds its token.
StashOnlyWhileApproved ==
    \A k \in Code : rows[k].stash # NoToken <=> rows[k].status = "approved"

\* Every login comes to an end: the command gets a token or gives up.
LoginEnds ==
    \A k \in Code : cli[k].at = "waiting" ~> cli[k].at \in {"paired", "failed", "quit"}
=============================================================================
