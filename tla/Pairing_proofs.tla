--------------------------- MODULE Pairing_proofs ---------------------------
(***************************************************************************)
(* Proofs about Pairing, for every set of codes and machines and every     *)
(* bound: the types, the two invariants of the token in clear, and that    *)
(* Pairing implements Handover.                                            *)
(***************************************************************************)
EXTENDS Pairing, TLAPS

\* No token is ahead of the counter, which makes the next one new.
TokensMinted == \A k \in Code : rows[k].stash <= minted /\ cli[k].token <= minted

\* The inductive invariant.  Approving puts a token in its row that is new by
\* TokensMinted; polling moves it, and leaves none behind, by
\* StashOnlyWhileApproved.
PInv == PairingTypeOK /\ StashOnlyWhileApproved /\ TokenInOnePlace /\ TokensMinted

AllVars == <<tokens, saved, pairingVars>>

\* Nothing in the invariant but the flags of time and the counter of losses
\* changes when the two tables and what was minted do not.
LEMMA Quiet ==
    ASSUME PInv, UNCHANGED <<rows, cli, minted, tokens, saved>>,
           late' \subseteq due', due' \subseteq Code, blips' \in 0..MaxBlips
    PROVE  PInv'
  BY DEF PInv, PairingTypeOK, StashOnlyWhileApproved, TokenInOnePlace, TokensMinted

\* The sweep of expired codes keeps a row or empties it.
LEMMA SweepEmpties ==
    ASSUME PInv, NEW table, table = Swept(rows)
    PROVE  /\ table \in [Code -> Row]
           /\ \A k \in Code : table[k].stash = NoToken \/ table[k] = rows[k]
           /\ \A k \in Code : table[k].stash # NoToken <=> table[k].status = "approved"
<1>1. rows \in [Code -> Row]
  BY DEF PInv, PairingTypeOK
<1>2. [status |-> "expired", stash |-> NoToken] \in Row
  BY DEF Row, PairStatus
<1>3. table \in [Code -> Row]
  BY <1>1, <1>2 DEF Swept
<1>4. ASSUME NEW k \in Code
      PROVE  table[k] = rows[k] \/ table[k] = [status |-> "expired", stash |-> NoToken]
  BY DEF Swept
<1>5. \A k \in Code : rows[k].stash # NoToken <=> rows[k].status = "approved"
  BY DEF PInv, StashOnlyWhileApproved
<1> QED
  BY <1>3, <1>4, <1>5

\* A step that only sweeps keeps the invariant.
LEMMA Sweeping ==
    ASSUME PInv, rows' = Swept(rows), UNCHANGED <<due, late, cli, minted, blips, tokens, saved>>
    PROVE  PInv'
<1>1. /\ rows' \in [Code -> Row]
      /\ \A k \in Code : rows'[k].stash = NoToken \/ rows'[k] = rows[k]
      /\ \A k \in Code : rows'[k].stash # NoToken <=> rows'[k].status = "approved"
  BY SweepEmpties
<1>2. PairingTypeOK'
  BY <1>1 DEF PInv, PairingTypeOK
<1>3. StashOnlyWhileApproved'
  BY <1>1 DEF StashOnlyWhileApproved
<1>4. TokenInOnePlace'
  BY <1>1 DEF PInv, TokenInOnePlace
<1>5. TokensMinted'
  BY <1>1 DEF PInv, TokensMinted, PairingTypeOK, NoToken
<1> QED
  BY <1>2, <1>3, <1>4, <1>5 DEF PInv

\* A step of one command that leaves the tables keeps the invariant, when it
\* leaves the command a token it had or none.
LEMMA CommandMoves ==
    ASSUME PInv, NEW k \in Code, NEW c \in Cli, cli' = [cli EXCEPT ![k] = c],
           c.token \in {cli[k].token, NoToken},
           UNCHANGED <<rows, minted, tokens, due, late>>,
           blips' \in 0..MaxBlips, saved' \in [Machine -> 0..minted]
    PROVE  PInv'
<1>1. cli \in [Code -> Cli] /\ minted \in Nat
  BY DEF PInv, PairingTypeOK
<1>2. cli' \in [Code -> Cli]
  BY <1>1
<1>3. \A j \in Code : cli'[j] = IF j = k THEN c ELSE cli[j]
  BY <1>1
<1>4. \A j \in Code : cli'[j].token \in {cli[j].token, NoToken}
  BY <1>3
<1>5. PairingTypeOK'
  BY <1>2 DEF PInv, PairingTypeOK
<1>6. StashOnlyWhileApproved'
  BY DEF PInv, StashOnlyWhileApproved
<1>7. TokenInOnePlace'
  BY <1>4 DEF PInv, TokenInOnePlace
<1>8. TokensMinted'
  BY <1>1, <1>4 DEF PInv, TokensMinted, NoToken
<1> QED
  BY <1>5, <1>6, <1>7, <1>8 DEF PInv

-----------------------------------------------------------------------------
(* The commands *)

\* A command that only goes elsewhere is a case of CommandMoves.
LEMMA CommandGoes ==
    ASSUME PInv, NEW k \in Code,
           NEW to \in {"waiting", "asking", "paired", "failed", "quit"},
           NEW tok \in {cli[k].token, NoToken},
           cli' = [cli EXCEPT ![k].at = to, ![k].token = tok],
           UNCHANGED <<rows, minted, tokens, due, late>>,
           blips' \in 0..MaxBlips, saved' \in [Machine -> 0..minted]
    PROVE  PInv'
<1> DEFINE c == [cli[k] EXCEPT !.at = to, !.token = tok]
<1>1. cli \in [Code -> Cli]
  BY DEF PInv, PairingTypeOK
<1>2. c \in Cli /\ c.token = tok
  BY <1>1 DEF Cli
<1>3. cli' = [cli EXCEPT ![k] = c]
  BY <1>1 DEF Cli
<1> HIDE DEF c
<1> QED
  BY <1>2, <1>3, CommandMoves

\* The same for a step that leaves the token alone.
LEMMA CommandSteps ==
    ASSUME PInv, NEW k \in Code,
           NEW to \in {"waiting", "asking", "paired", "failed", "quit"},
           cli' = [cli EXCEPT ![k].at = to],
           UNCHANGED <<rows, minted, tokens, due, late>>,
           blips' \in 0..MaxBlips, saved' \in [Machine -> 0..minted]
    PROVE  PInv'
<1>1. cli \in [Code -> Cli]
  BY DEF PInv, PairingTypeOK
<1>2. cli' = [cli EXCEPT ![k].at = to, ![k].token = cli[k].token]
  BY <1>1 DEF Cli
<1> QED
  BY <1>2, CommandGoes

\* An answer that arrives.
LEMMA TakingAnswer ==
    ASSUME PInv, NEW k \in Code, TakeAnswer(k)
    PROVE  PInv'
<1> DEFINE to == NextStep(cli[k].status)
<1>1. to \in {"paired", "waiting", "failed"}
  BY DEF NextStep
<1>2. /\ cli \in [Code -> Cli] /\ blips \in 0..MaxBlips
      /\ saved \in [Machine -> 0..minted] /\ minted \in Nat
  BY DEF PInv, PairingTypeOK
<1>3. cli[k].machine \in Machine /\ cli[k].token \in 0..minted
  <2>1. cli[k].token \in Nat /\ cli[k].machine \in Machine
    BY <1>2, TokensAssumption DEF Cli, Token, NoToken
  <2>2. cli[k].token <= minted
    BY DEF PInv, TokensMinted
  <2> QED BY <1>2, <2>1, <2>2
<1>4. saved' \in [Machine -> 0..minted]
  BY <1>2, <1>3 DEF TakeAnswer
<1>5. cli' = [cli EXCEPT ![k].at = to]
  BY DEF TakeAnswer
<1> HIDE DEF to
<1> QED
  BY <1>1, <1>2, <1>4, <1>5, CommandSteps DEF TakeAnswer

\* An answer that is lost takes its token with it.
LEMMA Blipping ==
    ASSUME PInv, NEW k \in Code, Blip(k)
    PROVE  PInv'
<1>1. /\ blips \in 0..MaxBlips /\ saved \in [Machine -> 0..minted]
      /\ MaxBlips \in Nat
  BY PairingAssumption DEF PInv, PairingTypeOK
<1>2. blips' \in 0..MaxBlips
  BY <1>1 DEF Blip
<1> QED
  BY <1>1, <1>2, CommandGoes DEF Blip

\* The other steps of a command.
LEMMA CommandActs ==
    ASSUME PInv, NEW k \in Code, Poll(k) \/ GiveUp(k) \/ Quit(k)
    PROVE  PInv'
<1>1. blips \in 0..MaxBlips /\ saved \in [Machine -> 0..minted]
  BY DEF PInv, PairingTypeOK
<1>2. CASE Poll(k)
  BY <1>1, <1>2, CommandSteps DEF Poll
<1>3. CASE GiveUp(k)
  BY <1>1, <1>3, CommandSteps DEF GiveUp
<1>4. CASE Quit(k)
  BY <1>1, <1>4, CommandGoes DEF Quit
<1> QED
  BY <1>2, <1>3, <1>4

-----------------------------------------------------------------------------
(* The server *)

\* A code begins without a token.
LEMMA Initiating ==
    ASSUME PInv, NEW k \in Code, PairInit(k)
    PROVE  PInv'
<1> DEFINE row == [status |-> "pending", stash |-> NoToken]
<1>1. /\ cli \in [Code -> Cli] /\ rows \in [Code -> Row] /\ minted \in Nat
      /\ row \in Row
  BY DEF PInv, PairingTypeOK, Row, PairStatus
<1>2. cli' \in [Code -> Cli] /\ rows' \in [Code -> Row]
  BY <1>1 DEF PairInit, Cli
<1>3. \A j \in Code : cli'[j].token = cli[j].token
  BY <1>1 DEF PairInit, Cli
<1>4. \A j \in Code : rows'[j] = IF j = k THEN row ELSE rows[j]
  BY <1>1 DEF PairInit
<1>5. PairingTypeOK'
  BY <1>2 DEF PInv, PairingTypeOK, PairInit
<1>6. StashOnlyWhileApproved'
  BY <1>4 DEF PInv, StashOnlyWhileApproved
<1>7. TokenInOnePlace'
  BY <1>3, <1>4 DEF PInv, TokenInOnePlace
<1>8. TokensMinted'
  BY <1>1, <1>3, <1>4 DEF PInv, TokensMinted, PairInit, NoToken
<1> QED
  BY <1>5, <1>6, <1>7, <1>8 DEF PInv

\* A poll moves the token of an approved code to the command.
LEMMA Polling ==
    ASSUME PInv, NEW k \in Code, AnswerPoll(k)
    PROVE  PInv'
<1> DEFINE table   == Swept(rows)
           row     == table[k]
           claimed == [status |-> "claimed", stash |-> NoToken]
           c == [cli[k] EXCEPT !.at = "answered", !.status = row.status,
                               !.token = row.stash]
<1>1. /\ table \in [Code -> Row]
      /\ \A j \in Code : table[j].stash = NoToken \/ table[j] = rows[j]
      /\ \A j \in Code : table[j].stash # NoToken <=> table[j].status = "approved"
  BY SweepEmpties
<1>2. cli \in [Code -> Cli] /\ minted \in Nat /\ claimed \in Row
  BY DEF PInv, PairingTypeOK, Row, PairStatus
<1>3. c \in Cli /\ c.token = row.stash
  BY <1>1, <1>2 DEF Cli, Row
<1>4. cli' = [cli EXCEPT ![k] = c]
  BY DEF AnswerPoll
<1>5. rows' = IF row.status = "approved" THEN [table EXCEPT ![k] = claimed] ELSE table
  BY DEF AnswerPoll
<1>6. UNCHANGED <<due, late, minted, blips, tokens, saved>>
  BY DEF AnswerPoll
<1> HIDE DEF c, table
<1>7. rows' \in [Code -> Row] /\ cli' \in [Code -> Cli]
  BY <1>1, <1>2, <1>3, <1>4, <1>5
<1>8. \A j \in Code : cli'[j].token = IF j = k THEN row.stash ELSE cli[j].token
  BY <1>2, <1>3, <1>4
<1>9. /\ rows'[k].stash = NoToken /\ rows'[k].status # "approved"
      /\ \A j \in Code \ {k} : rows'[j] = table[j]
  BY <1>1, <1>5
<1>10. \A j \in Code \ {k} : rows'[j].stash \in {NoToken, rows[j].stash}
  BY <1>1, <1>9
<1>11. row.stash \in {NoToken, rows[k].stash}
  BY <1>1
<1>12. PairingTypeOK'
  BY <1>6, <1>7 DEF PInv, PairingTypeOK
<1>13. StashOnlyWhileApproved'
  BY <1>1, <1>9 DEF StashOnlyWhileApproved
<1>14. TokenInOnePlace'
  BY <1>8, <1>9, <1>10, <1>11 DEF PInv, TokenInOnePlace
<1>15. TokensMinted'
  BY <1>2, <1>6, <1>8, <1>9, <1>10, <1>11 DEF PInv, TokensMinted, NoToken
<1> QED
  BY <1>12, <1>13, <1>14, <1>15 DEF PInv

\* An approval puts a new token in the row of its code.
LEMMA Approving ==
    ASSUME PInv, NEW k \in Code, Approve(k)
    PROVE  PInv'
<1> DEFINE table == Swept(rows)
           new   == minted + 1
           row   == [status |-> "approved", stash |-> new]
<1>1. /\ table \in [Code -> Row]
      /\ \A j \in Code : table[j].stash = NoToken \/ table[j] = rows[j]
      /\ \A j \in Code : table[j].stash # NoToken <=> table[j].status = "approved"
  BY SweepEmpties
<1>2. CASE table[k].status # "pending"
  BY <1>2, Sweeping DEF Approve
<1>3. CASE table[k].status = "pending"
  <2>1. /\ minted \in Nat /\ minted < MaxTokens /\ MaxTokens \in Nat
        /\ tokens \subseteq 1..minted /\ saved \in [Machine -> 0..minted]
        /\ cli \in [Code -> Cli]
    BY <1>3, TokensAssumption DEF PInv, PairingTypeOK, Approve
  <2>2. /\ minted' = new /\ tokens' = tokens \cup {new}
        /\ rows' = [table EXCEPT ![k] = row]
        /\ UNCHANGED <<due, late, cli, blips, saved>>
    BY <1>3 DEF Approve
  <2>3. row \in Row /\ new # NoToken
    BY <2>1 DEF Row, PairStatus, Token, NoToken
  <2> HIDE DEF table, row
  <2>4. rows' \in [Code -> Row]
    BY <1>1, <2>2, <2>3
  <2>5. \A j \in Code : rows'[j] = IF j = k THEN row ELSE table[j]
    BY <1>1, <2>2
  <2>6. row.stash = new /\ row.status = "approved"
    BY DEF row
  <2>7. \A j \in Code \ {k} : rows'[j].stash \in {NoToken, rows[j].stash}
    BY <1>1, <2>5
  <2>8. \A j \in Code : rows[j].stash # new /\ cli[j].token # new
    BY <2>1 DEF PInv, TokensMinted
  <2>9. PairingTypeOK'
    <3>1. tokens' \subseteq 1..minted' /\ minted' \in 0..MaxTokens
      BY <2>1, <2>2
    <3>2. saved' \in [Machine -> 0..minted']
      BY <2>1, <2>2
    <3> QED
      BY <2>2, <2>4, <3>1, <3>2 DEF PInv, PairingTypeOK
  <2>10. StashOnlyWhileApproved'
    BY <1>1, <2>3, <2>5, <2>6 DEF StashOnlyWhileApproved
  <2>11. TokenInOnePlace'
    BY <2>2, <2>3, <2>5, <2>6, <2>7, <2>8 DEF PInv, TokenInOnePlace
  <2>12. TokensMinted'
    <3>1. ASSUME NEW j \in Code
          PROVE  /\ rows[j].stash \in Nat /\ rows[j].stash <= minted
                 /\ cli[j].token \in Nat /\ cli[j].token <= minted
      BY <2>1 DEF PInv, PairingTypeOK, TokensMinted, Row, Cli, Token, NoToken
    <3>2. ASSUME NEW j \in Code
          PROVE  rows'[j].stash <= new /\ cli'[j].token <= new
      BY <2>1, <2>2, <2>5, <2>6, <2>7, <3>1 DEF NoToken
    <3> QED
      BY <2>2, <3>2 DEF TokensMinted
  <2> QED
    BY <2>9, <2>10, <2>11, <2>12 DEF PInv
<1> QED
  BY <1>2, <1>3

-----------------------------------------------------------------------------
\* The invariant holds at first, and every step keeps it.
LEMMA PairingInitially == PairingInit => PInv
<1> SUFFICES ASSUME PairingInit PROVE PInv
  OBVIOUS
<1>1. \A k \in Code : rows[k] = [status |-> "none", stash |-> NoToken]
  BY DEF PairingInit
<1>2. rows \in [Code -> Row]
  BY DEF PairingInit, Row, PairStatus
<1>3. PICK on \in [Code -> Machine] :
          cli = [k \in Code |-> [at |-> "start", machine |-> on[k],
                                 status |-> "none", token |-> NoToken]]
  BY DEF PairingInit
<1>4. cli \in [Code -> Cli] /\ \A k \in Code : cli[k].token = NoToken
  BY <1>3 DEF Cli, PairStatus
<1>5. PairingTypeOK
  BY <1>2, <1>4, TokensAssumption, PairingAssumption
     DEF PairingTypeOK, PairingInit, TokensInit, NoToken
<1> QED
  BY <1>1, <1>4, <1>5
     DEF PInv, StashOnlyWhileApproved, TokenInOnePlace, TokensMinted, PairingInit, NoToken

LEMMA PairingStep == PInv /\ [PairingNext]_AllVars => PInv'
<1> SUFFICES ASSUME PInv, [PairingNext]_AllVars PROVE PInv'
  OBVIOUS
<1>1. CASE UNCHANGED AllVars
  BY <1>1, Quiet DEF AllVars, pairingVars, PInv, PairingTypeOK
<1>2. ASSUME NEW k \in Code, FallDue(k) PROVE PInv'
  BY <1>2, Quiet DEF FallDue, PInv, PairingTypeOK
<1>3. ASSUME NEW k \in Code, FallLate(k) PROVE PInv'
  BY <1>3, Quiet DEF FallLate, PInv, PairingTypeOK
<1>4. ASSUME NEW k \in Code, Lookup(k) PROVE PInv'
  BY <1>4, Sweeping DEF Lookup
<1> QED
  BY <1>1, <1>2, <1>3, <1>4, Initiating, Polling, Approving, TakingAnswer, Blipping,
     CommandActs DEF PairingNext

\* Every variable keeps its type, for every set of codes and machines.
THEOREM PairingTyped == PairingSpec => []PairingTypeOK
<1>1. PInv => PairingTypeOK
  BY DEF PInv
<1> QED
  BY <1>1, PairingInitially, PairingStep, PTL DEF PairingSpec, AllVars

\* A token in clear is never in two places, and so handed out at most once, for
\* any number of codes, however polls, approvals, expiry and losses interleave.
THEOREM HandedOutOnce == PairingSpec => []TokenInOnePlace
<1>1. PInv => TokenInOnePlace
  BY DEF PInv
<1> QED
  BY <1>1, PairingInitially, PairingStep, PTL DEF PairingSpec, AllVars

\* A row holds a token in clear while its code is approved and no longer: a claim
\* and an expiry wipe it.
THEOREM StashWiped == PairingSpec => []StashOnlyWhileApproved
<1>1. PInv => StashOnlyWhileApproved
  BY DEF PInv
<1> QED
  BY <1>1, PairingInitially, PairingStep, PTL DEF PairingSpec, AllVars

-----------------------------------------------------------------------------
(* Pairing implements Handover.  Most steps of the polling protocol move   *)
(* no token and map to a stutter, the sweep among them: a code is lost     *)
(* when its deadline passes, and not when the table says so.               *)

\* A command holds a token only between the answer that brings it and its end,
\* and then the row of its code is claimed; a command that has not begun has
\* no row, and a code with no row has no deadline.
Courier(k) ==
    /\ cli[k].token # NoToken => /\ cli[k].at \in {"answered", "paired"}
                                 /\ rows[k].status = "claimed"
    /\ cli[k].at = "answered" =>
          (cli[k].status = "approved" <=> cli[k].token # NoToken)
    /\ cli[k].at = "paired" => cli[k].token # NoToken
    /\ cli[k].at = "start" <=> rows[k].status = "none"
    /\ cli[k].at = "start" => k \notin due

CInv == PInv /\ \A k \in Code : Courier(k)

\* What the invariant says of one code and its types.
LEMMA CodeFacts ==
    ASSUME CInv, NEW k \in Code
    PROVE  /\ Courier(k)
           /\ cli \in [Code -> Cli] /\ rows \in [Code -> Row]
           /\ rows[k].stash # NoToken <=> rows[k].status = "approved"
  BY DEF CInv, PInv, PairingTypeOK, StashOnlyWhileApproved

\* A code whose command does not move, and whose row is at most swept, is
\* where it was.
LEMMA PlaceKept ==
    ASSUME CInv, NEW k \in Code, cli'[k] = cli[k], due' = due,
           rows'[k] \in {rows[k], Swept(rows)[k]}
    PROVE  PlaceOf(k)' = PlaceOf(k) /\ GiftOf(k)' = GiftOf(k) /\ Courier(k)'
<1>1. CASE rows'[k] = rows[k]
  BY <1>1, CodeFacts DEF PlaceOf, GiftOf, Courier
<1>2. CASE rows'[k] # rows[k]
  <2>1. /\ k \in due /\ rows[k].status \in {"pending", "approved"}
        /\ rows'[k] = [status |-> "expired", stash |-> NoToken]
    BY <1>2 DEF Swept
  <2>2. cli[k].token = NoToken /\ cli[k].at \notin {"paired", "start"}
    BY <2>1, CodeFacts DEF Courier
  <2> QED
    BY <2>1, <2>2, CodeFacts DEF PlaceOf, GiftOf, Courier
<1> QED
  BY <1>1, <1>2

\* Places and gifts that stay, code by code, make a stutter.
LEMMA Stutters ==
    ASSUME CInv, cli' \in [Code -> Cli],
           \A j \in Code : /\ PlaceOf(j)' = PlaceOf(j) /\ GiftOf(j)' = GiftOf(j)
                           /\ cli'[j].machine = cli[j].machine,
           UNCHANGED <<minted, saved>>
    PROVE  UNCHANGED H!gifts
  BY DEF H!gifts

\* The place of code k changes, and perhaps its gift.
LEMMA Moves ==
    ASSUME CInv, NEW k \in Code, NEW from, NEW to, PlaceOf(k) \in from,
           PlaceOf(k)' = to,
           \A j \in Code \ {k} : PlaceOf(j)' = PlaceOf(j) /\ GiftOf(j)' = GiftOf(j),
           \A j \in Code : cli'[j].machine = cli[j].machine
    PROVE  /\ H!Goes(k, from, to)
           /\ [j \in Code |-> GiftOf(j)]' =
                  [[j \in Code |-> GiftOf(j)] EXCEPT ![k] = GiftOf(k)']
           /\ UNCHANGED [j \in Code |-> cli[j].machine]
  BY DEF H!Goes

-----------------------------------------------------------------------------
(* The steps *)

\* What a step of the command of code k, or of the server for it, has in
\* common: the other codes are where they were.
Others(k) ==
    /\ \A j \in Code \ {k} : PlaceOf(j)' = PlaceOf(j) /\ GiftOf(j)' = GiftOf(j)
                             /\ Courier(j)'
    /\ \A j \in Code : cli'[j].machine = cli[j].machine
    /\ cli' \in [Code -> Cli]

\* The command of code k goes elsewhere, and keeps its token or drops it.
LEMMA CommandOthers ==
    ASSUME CInv, NEW k \in Code, NEW c \in Cli, cli' = [cli EXCEPT ![k] = c],
           c.machine = cli[k].machine, due' = due,
           \A j \in Code \ {k} : rows'[j] \in {rows[j], Swept(rows)[j]}
    PROVE  Others(k) /\ cli'[k] = c
<1>1. cli \in [Code -> Cli]
  BY CodeFacts
<1>2. cli' \in [Code -> Cli] /\ cli'[k] = c /\ \A j \in Code \ {k} : cli'[j] = cli[j]
  BY <1>1
<1>3. \A j \in Code \ {k} : PlaceOf(j)' = PlaceOf(j) /\ GiftOf(j)' = GiftOf(j)
                            /\ Courier(j)'
  BY <1>2, PlaceKept
<1> QED
  BY <1>2, <1>3 DEF Others

\* PairInit, Poll and GiveUp: a command without a token goes on without one.
LEMMA EmptyHanded ==
    ASSUME CInv, NEW k \in Code, PairInit(k) \/ Poll(k) \/ GiveUp(k)
    PROVE  UNCHANGED H!gifts /\ \A j \in Code : Courier(j)'
<1>1. PICK to \in {"waiting", "asking", "failed"} :
          cli' = [cli EXCEPT ![k].at = to] /\ (to = "waiting" <=> PairInit(k))
  BY DEF PairInit, Poll, GiveUp
<1> DEFINE c == [cli[k] EXCEPT !.at = to]
<1>2. /\ cli[k] \in Cli /\ Courier(k) /\ cli[k].at \in {"start", "waiting"}
      /\ due' = due /\ UNCHANGED <<minted, saved>>
  BY CodeFacts DEF PairInit, Poll, GiveUp
<1>3. /\ c \in Cli /\ c.machine = cli[k].machine /\ c.at = to
      /\ c.token = NoToken /\ cli[k].token = NoToken
  BY <1>2 DEF Cli, Courier
<1>4. cli' = [cli EXCEPT ![k] = c]
  BY <1>1, CodeFacts DEF Cli
<1>5. \A j \in Code \ {k} : rows'[j] = rows[j]
  BY CodeFacts DEF PairInit, Poll, GiveUp
<1> HIDE DEF c
<1>6. Others(k) /\ cli'[k] = c
  BY <1>2, <1>3, <1>4, <1>5, CommandOthers
<1>7. PlaceOf(k)' = PlaceOf(k) /\ GiftOf(k)' = GiftOf(k) /\ Courier(k)'
  <2>1. CASE PairInit(k)
    BY <1>2, <1>3, <1>6, <2>1, CodeFacts DEF PairInit, PlaceOf, GiftOf, Courier
  <2>2. CASE Poll(k) \/ GiveUp(k)
    BY <1>1, <1>2, <1>3, <1>6, <2>2, CodeFacts DEF Poll, GiveUp, PlaceOf, GiftOf, Courier
  <2> QED
    BY <2>1, <2>2
<1> QED
  BY <1>2, <1>6, <1>7, Stutters DEF Others

\* Lookup, and every step that only sweeps.
LEMMA SweepStutters ==
    ASSUME CInv, rows' = Swept(rows), UNCHANGED <<due, cli, minted, saved>>
    PROVE  UNCHANGED H!gifts /\ \A j \in Code : Courier(j)'
<1>1. \A j \in Code : PlaceOf(j)' = PlaceOf(j) /\ GiftOf(j)' = GiftOf(j) /\ Courier(j)'
  BY PlaceKept
<1>2. cli' \in [Code -> Cli]
  BY DEF CInv, PInv, PairingTypeOK
<1> QED
  BY <1>1, <1>2, Stutters

\* A poll that finds an approved code sends its token; any other moves none.
LEMMA AnswerSends ==
    ASSUME CInv, NEW k \in Code, AnswerPoll(k)
    PROVE  (H!Send(k) \/ UNCHANGED H!gifts) /\ \A j \in Code : Courier(j)'
<1> DEFINE row == Swept(rows)[k]
           c == [cli[k] EXCEPT !.at = "answered", !.status = row.status,
                               !.token = row.stash]
<1>1. /\ cli[k].at = "asking" /\ cli' = [cli EXCEPT ![k] = c]
      /\ due' = due /\ UNCHANGED <<minted, saved>>
  BY DEF AnswerPoll
<1>2. /\ cli[k] \in Cli /\ rows \in [Code -> Row] /\ Courier(k)
      /\ rows[k].stash # NoToken <=> rows[k].status = "approved"
  BY CodeFacts
<1>3. /\ Swept(rows) \in [Code -> Row]
      /\ row.stash # NoToken <=> row.status = "approved"
  BY SweepEmpties DEF CInv
<1>4. /\ c \in Cli /\ c.machine = cli[k].machine /\ c.at = "answered"
      /\ c.status = row.status /\ c.token = row.stash
  BY <1>2, <1>3 DEF Cli, Row
<1>5. /\ \A j \in Code \ {k} : rows'[j] = Swept(rows)[j]
      /\ rows'[k] = IF row.status = "approved"
                    THEN [status |-> "claimed", stash |-> NoToken] ELSE row
  BY <1>3 DEF AnswerPoll
<1>6. row = IF k \in due /\ rows[k].status \in {"pending", "approved"}
            THEN [status |-> "expired", stash |-> NoToken] ELSE rows[k]
  BY DEF Swept
<1>7. cli[k].token = NoToken /\ rows[k].status # "none"
  BY <1>1, <1>2 DEF Courier
<1> HIDE DEF c, row
<1>8. Others(k) /\ cli'[k] = c
  BY <1>1, <1>4, <1>5, CommandOthers
<1>9. CASE row.status = "approved"
  <2>1. k \notin due /\ rows[k].status = "approved" /\ row = rows[k]
    BY <1>6, <1>9
  <2>2. PlaceOf(k) = "held" /\ GiftOf(k) = rows[k].stash
    BY <1>1, <1>7, <2>1 DEF PlaceOf, GiftOf
  <2>3. PlaceOf(k)' = "sent" /\ GiftOf(k)' = rows[k].stash
    BY <1>3, <1>4, <1>8, <1>9, <2>1 DEF PlaceOf, GiftOf
  <2>4. Courier(k)'
    BY <1>3, <1>4, <1>5, <1>8, <1>9 DEF Courier
  <2>5. /\ H!Goes(k, {"held"}, "sent")
        /\ [j \in Code |-> GiftOf(j)]' =
               [[j \in Code |-> GiftOf(j)] EXCEPT ![k] = GiftOf(k)']
        /\ UNCHANGED [j \in Code |-> cli[j].machine]
    BY <1>8, <2>2, <2>3, Moves DEF Others
  <2>6. UNCHANGED [j \in Code |-> GiftOf(j)]
    BY <2>2, <2>3, <1>8 DEF Others
  <2> QED
    BY <1>1, <1>8, <2>4, <2>5, <2>6 DEF Others, H!Send
<1>10. CASE row.status # "approved"
  <2>1. c.token = NoToken /\ rows'[k] = row
    BY <1>3, <1>4, <1>5, <1>10
  <2>2. PlaceOf(k)' = PlaceOf(k)
    BY <1>1, <1>4, <1>6, <1>7, <1>8, <1>10, <2>1 DEF PlaceOf
  <2>3. PlaceOf(k) \in {"lost", "open"}
    BY <1>1, <1>6, <1>7, <1>10 DEF PlaceOf
  <2>4. GiftOf(k)' = GiftOf(k)
    BY <2>2, <2>3 DEF GiftOf
  <2>5. Courier(k)'
    BY <1>4, <1>6, <1>7, <1>8, <1>10, <2>1 DEF Courier
  <2> QED
    BY <1>1, <1>8, <2>2, <2>4, <2>5, Stutters DEF Others
<1> QED
  BY <1>9, <1>10

\* Approving a code that is still open grants a token.
LEMMA ApproveGrants ==
    ASSUME CInv, NEW k \in Code, Approve(k)
    PROVE  (H!Grant(k) \/ UNCHANGED H!gifts) /\ \A j \in Code : Courier(j)'
<1>1. CASE Swept(rows)[k].status # "pending"
  BY <1>1, SweepStutters DEF Approve
<1>2. CASE Swept(rows)[k].status = "pending"
  <2>1. k \notin due /\ rows[k].status = "pending"
    BY <1>2 DEF Swept
  <2>2. Swept(rows) \in [Code -> Row]
    BY SweepEmpties DEF CInv
  <2>3. /\ minted' = minted + 1 /\ UNCHANGED <<due, cli, saved>>
        /\ rows'[k] = [status |-> "approved", stash |-> minted']
        /\ \A j \in Code \ {k} : rows'[j] = Swept(rows)[j]
    BY <1>2, <2>2 DEF Approve
  <2>4. Courier(k) /\ cli \in [Code -> Cli]
    BY CodeFacts
  <2>5. cli[k].token = NoToken /\ cli[k].at \notin {"paired", "start"}
    BY <2>1, <2>4 DEF Courier
  <2>6. PlaceOf(k) = "open" /\ PlaceOf(k)' = "held" /\ GiftOf(k)' = minted'
    BY <2>1, <2>3, <2>5 DEF PlaceOf, GiftOf
  <2>7. Courier(k)'
    BY <2>1, <2>3, <2>4, <2>5 DEF Courier
  <2>8. \A j \in Code \ {k} : /\ PlaceOf(j)' = PlaceOf(j) /\ GiftOf(j)' = GiftOf(j)
                              /\ Courier(j)'
    BY <2>3, PlaceKept
  <2>9. /\ H!Goes(k, {"open"}, "held")
        /\ [j \in Code |-> GiftOf(j)]' =
               [[j \in Code |-> GiftOf(j)] EXCEPT ![k] = GiftOf(k)']
        /\ UNCHANGED [j \in Code |-> cli[j].machine]
    BY <2>3, <2>6, <2>8, Moves
  <2> QED
    BY <2>3, <2>6, <2>7, <2>8, <2>9 DEF H!Grant
<1> QED
  BY <1>1, <1>2

\* A command that takes an answer with a token keeps it for its machine.
LEMMA TakingReceives ==
    ASSUME CInv, NEW k \in Code, TakeAnswer(k)
    PROVE  (H!Receive(k) \/ UNCHANGED H!gifts) /\ \A j \in Code : Courier(j)'
<1> DEFINE to == NextStep(cli[k].status)
           c  == [cli[k] EXCEPT !.at = to]
<1>1. /\ cli[k].at = "answered" /\ cli' = [cli EXCEPT ![k].at = to]
      /\ UNCHANGED <<rows, due, minted>>
      /\ saved' = IF to = "paired"
                  THEN [saved EXCEPT ![cli[k].machine] = cli[k].token] ELSE saved
  BY DEF TakeAnswer
<1>2. cli \in [Code -> Cli] /\ Courier(k)
  BY CodeFacts
<1>3. to \in {"paired", "waiting", "failed"} /\ (to = "paired" <=> cli[k].status = "approved")
  BY DEF NextStep
<1> HIDE DEF to
<1>4. /\ c \in Cli /\ c.machine = cli[k].machine /\ c.at = to /\ c.token = cli[k].token
      /\ cli' = [cli EXCEPT ![k] = c]
  BY <1>1, <1>2, <1>3 DEF Cli
<1> HIDE DEF c
<1>5. Others(k) /\ cli'[k] = c
  BY <1>1, <1>4, CommandOthers
<1>6. Courier(k)'
  BY <1>1, <1>2, <1>3, <1>4, <1>5 DEF Courier
<1>7. CASE to = "paired"
  <2>1. cli[k].token # NoToken
    BY <1>1, <1>2, <1>3, <1>7 DEF Courier
  <2>2. PlaceOf(k) = "sent" /\ GiftOf(k) = cli[k].token
    BY <1>1, <2>1 DEF PlaceOf, GiftOf
  <2>3. PlaceOf(k)' = "received" /\ GiftOf(k)' = cli[k].token
    BY <1>4, <1>5, <1>7 DEF PlaceOf, GiftOf
  <2>4. /\ H!Goes(k, {"sent"}, "received")
        /\ [j \in Code |-> GiftOf(j)]' =
               [[j \in Code |-> GiftOf(j)] EXCEPT ![k] = GiftOf(k)']
        /\ UNCHANGED [j \in Code |-> cli[j].machine]
    BY <1>5, <2>2, <2>3, Moves DEF Others
  <2>5. UNCHANGED [j \in Code |-> GiftOf(j)]
    BY <1>5, <2>2, <2>3 DEF Others
  <2>6. saved' = [saved EXCEPT ![[j \in Code |-> cli[j].machine][k]] =
                                  [j \in Code |-> GiftOf(j)][k]]
    BY <1>1, <1>7, <2>2
  <2> QED
    BY <1>1, <1>5, <1>6, <2>4, <2>5, <2>6 DEF Others, H!Receive
<1>8. CASE to # "paired"
  <2>1. cli[k].token = NoToken
    BY <1>1, <1>2, <1>3, <1>8 DEF Courier
  <2>2. PlaceOf(k)' = PlaceOf(k) /\ GiftOf(k)' = GiftOf(k)
    BY <1>1, <1>4, <1>5, <1>8, <2>1 DEF PlaceOf, GiftOf
  <2> QED
    BY <1>1, <1>5, <1>6, <1>8, <2>2, Stutters DEF Others
<1> QED
  BY <1>7, <1>8

\* A code whose token is lost.
LEMMA Losing ==
    ASSUME CInv, NEW k \in Code, PlaceOf(k) \in {"open", "held", "sent"},
           PlaceOf(k)' = "lost", GiftOf(k)' = NoToken,
           \A j \in Code \ {k} : PlaceOf(j)' = PlaceOf(j) /\ GiftOf(j)' = GiftOf(j),
           \A j \in Code : cli'[j].machine = cli[j].machine,
           UNCHANGED <<minted, saved>>
    PROVE  H!Lose(k)
<1>1. H!Goes(k, {"open", "held", "sent"}, "lost")
  BY DEF H!Goes
<1>2. [j \in Code |-> GiftOf(j)]' = [[j \in Code |-> GiftOf(j)] EXCEPT ![k] = NoToken]
  OBVIOUS
<1>3. UNCHANGED [j \in Code |-> cli[j].machine]
  OBVIOUS
<1> QED
  BY <1>1, <1>2, <1>3 DEF H!Lose, H!NoGift, NoToken

\* An answer that is lost, or a command that is left, loses what was sent.
LEMMA LettingGoLoses ==
    ASSUME CInv, NEW k \in Code, Blip(k) \/ Quit(k)
    PROVE  (H!Lose(k) \/ UNCHANGED H!gifts) /\ \A j \in Code : Courier(j)'
<1>1. PICK end \in {"waiting", "quit"} :
          cli' = [cli EXCEPT ![k].at = end, ![k].token = NoToken]
  BY DEF Blip, Quit
<1> DEFINE c == [cli[k] EXCEPT !.at = end, !.token = NoToken]
<1>2. /\ UNCHANGED <<rows, due, minted, saved>>
      /\ cli[k].at \in {"waiting", "asking", "answered"}
  BY DEF Blip, Quit
<1>3. cli \in [Code -> Cli] /\ Courier(k)
  BY CodeFacts
<1>4. /\ c \in Cli /\ c.machine = cli[k].machine /\ c.at = end /\ c.token = NoToken
      /\ cli' = [cli EXCEPT ![k] = c]
  BY <1>1, <1>3 DEF Cli
<1> HIDE DEF c
<1>5. Others(k) /\ cli'[k] = c
  BY <1>2, <1>4, CommandOthers
<1>6. Courier(k)'
  BY <1>1, <1>2, <1>3, <1>4, <1>5 DEF Courier
<1>7. CASE cli[k].token # NoToken
  <2>1. rows[k].status = "claimed"
    BY <1>3, <1>7 DEF Courier
  <2>2. PlaceOf(k) = "sent"
    BY <1>2, <1>7 DEF PlaceOf
  <2>3. PlaceOf(k)' = "lost" /\ GiftOf(k)' = NoToken
    BY <1>1, <1>2, <1>4, <1>5, <2>1 DEF PlaceOf, GiftOf
  <2> QED
    BY <1>2, <1>5, <1>6, <2>2, <2>3, Losing DEF Others
<1>8. CASE cli[k].token = NoToken
  <2>1. PlaceOf(k)' = PlaceOf(k) /\ GiftOf(k)' = GiftOf(k)
    BY <1>1, <1>2, <1>4, <1>5, <1>8 DEF PlaceOf, GiftOf
  <2> QED
    BY <1>2, <1>5, <1>6, <2>1, Stutters DEF Others
<1> QED
  BY <1>7, <1>8

\* The passing of a deadline loses a token that is still to be granted or sent.
LEMMA ExpiryLoses ==
    ASSUME CInv, NEW k \in Code, FallDue(k)
    PROVE  (H!Lose(k) \/ UNCHANGED H!gifts) /\ \A j \in Code : Courier(j)'
<1>1. UNCHANGED <<rows, cli, minted, saved>> /\ due' = due \cup {k} /\ k \notin due
  BY DEF FallDue
<1>2. cli \in [Code -> Cli] /\ \A j \in Code : Courier(j)
  BY CodeFacts
<1>3. cli[k].at # "start"
  BY <1>2 DEF FallDue, Active, Courier
<1>4. \A j \in Code : Courier(j)'
  BY <1>1, <1>2, <1>3 DEF Courier
<1>5. \A j \in Code \ {k} : PlaceOf(j)' = PlaceOf(j) /\ GiftOf(j)' = GiftOf(j)
  BY <1>1 DEF PlaceOf, GiftOf
<1>6. CASE PlaceOf(k) \in {"open", "held"}
  <2>1. cli[k].at # "paired" /\ cli[k].token = NoToken
    BY <1>6 DEF PlaceOf
  <2>2. PlaceOf(k)' = "lost" /\ GiftOf(k)' = NoToken
    BY <1>1, <2>1 DEF PlaceOf, GiftOf
  <2> QED
    BY <1>1, <1>4, <1>5, <1>6, <2>2, Losing
<1>7. CASE PlaceOf(k) \notin {"open", "held"}
  <2>1. PlaceOf(k)' = PlaceOf(k) /\ GiftOf(k)' = GiftOf(k)
    BY <1>1, <1>7 DEF PlaceOf, GiftOf
  <2> QED
    BY <1>1, <1>2, <1>4, <1>5, <2>1, Stutters
<1> QED
  BY <1>6, <1>7

-----------------------------------------------------------------------------
(* The theorem *)

LEMMA HandoverInitially == PairingInit => CInv /\ H!Init
<1> SUFFICES ASSUME PairingInit PROVE CInv /\ H!Init
  OBVIOUS
<1>1. PInv
  BY PairingInitially
<1>2. /\ minted = 0 /\ due = {} /\ saved = [m \in Machine |-> NoToken]
      /\ \A k \in Code : rows[k] = [status |-> "none", stash |-> NoToken]
  BY DEF PairingInit, TokensInit
<1>3. PICK on \in [Code -> Machine] :
          cli = [k \in Code |-> [at |-> "start", machine |-> on[k],
                                 status |-> "none", token |-> NoToken]]
  BY DEF PairingInit
<1>4. \A k \in Code : /\ cli[k].machine = on[k] /\ cli[k].at = "start"
                      /\ cli[k].token = NoToken /\ cli[k].status = "none"
  BY <1>3
<1>5. \A k \in Code : Courier(k)
  BY <1>2, <1>4 DEF Courier
<1>6. \A k \in Code : PlaceOf(k) = "open"
  BY <1>2, <1>4 DEF PlaceOf
<1>7. \A k \in Code : GiftOf(k) = NoToken
  BY <1>6 DEF GiftOf
<1>8. [k \in Code |-> cli[k].machine] \in [Code -> Machine]
  BY <1>4
<1>9. H!Init
  BY <1>2, <1>6, <1>7, <1>8 DEF H!Init, H!NoGift, NoToken
<1> QED
  BY <1>1, <1>5, <1>9 DEF CInv

\* Every step of pairing is a step of the handover, or moves no token.
LEMMA HandoverStep == CInv /\ [PairingNext]_AllVars => CInv' /\ [H!Next]_(H!gifts)
<1> SUFFICES ASSUME CInv, [PairingNext]_AllVars PROVE CInv' /\ [H!Next]_(H!gifts)
  OBVIOUS
<1> DEFINE Good == /\ \A j \in Code : Courier(j)'
                   /\ UNCHANGED H!gifts \/ \E k \in Code :
                          H!Grant(k) \/ H!Send(k) \/ H!Receive(k) \/ H!Lose(k)
<1>1. PInv'
  BY PairingStep DEF CInv
<1>2. CASE UNCHANGED <<rows, due, cli, minted, saved>>
  <2>1. rows' = rows /\ due' = due /\ cli' = cli /\ UNCHANGED <<minted, saved>>
    BY <1>2
  <2>2. ASSUME NEW j \in Code
        PROVE  PlaceOf(j)' = PlaceOf(j) /\ GiftOf(j)' = GiftOf(j) /\ Courier(j)'
    BY <2>1, PlaceKept
  <2>3. cli' \in [Code -> Cli]
    BY <2>1 DEF CInv, PInv, PairingTypeOK
  <2>4. UNCHANGED H!gifts
    BY <2>1, <2>2, <2>3, Stutters
  <2> QED
    BY <1>1, <2>2, <2>4 DEF CInv
<1>3. ASSUME NEW k \in Code, PairInit(k) \/ Poll(k) \/ GiveUp(k) PROVE Good
  BY <1>3, EmptyHanded
<1>4. ASSUME NEW k \in Code, AnswerPoll(k) PROVE Good
  BY <1>4, AnswerSends
<1>5. ASSUME NEW k \in Code, Approve(k) PROVE Good
  BY <1>5, ApproveGrants
<1>6. ASSUME NEW k \in Code, Lookup(k) PROVE Good
  BY <1>6, SweepStutters DEF Lookup
<1>7. ASSUME NEW k \in Code, TakeAnswer(k) PROVE Good
  BY <1>7, TakingReceives
<1>8. ASSUME NEW k \in Code, Blip(k) \/ Quit(k) PROVE Good
  BY <1>8, LettingGoLoses
<1>9. ASSUME NEW k \in Code, FallDue(k) PROVE Good
  BY <1>9, ExpiryLoses
<1> QED
  <2>1. CASE UNCHANGED <<rows, due, cli, minted, saved>>
    BY <1>1, <1>2, <2>1 DEF CInv
  <2>2. CASE ~UNCHANGED <<rows, due, cli, minted, saved>>
    <3>1. PICK k \in Code :
              \/ PairInit(k) \/ Poll(k) \/ GiveUp(k) \/ AnswerPoll(k) \/ Approve(k)
              \/ Lookup(k) \/ TakeAnswer(k) \/ Blip(k) \/ Quit(k) \/ FallDue(k)
      BY <2>2 DEF PairingNext, AllVars, pairingVars, FallLate
    <3> HIDE DEF Good
    <3>2. Good
      BY <3>1, <1>3, <1>4, <1>5, <1>6, <1>7, <1>8, <1>9
    <3> USE DEF Good
    <3> QED
      BY <1>1, <3>2 DEF CInv, H!Next
  <2> QED
    BY <2>1, <2>2

\* Pairing implements the handover, for every set of codes and machines, every
\* bound, and whatever order polls, approvals, deadlines and losses come in.
THEOREM PairingIsHandover == PairingSpec => Promise
<1>1. PairingInit => CInv /\ H!Init
  BY HandoverInitially
<1>2. CInv /\ [PairingNext]_AllVars => CInv' /\ [H!Next]_(H!gifts)
  BY HandoverStep
<1> QED
  BY <1>1, <1>2, PTL DEF PairingSpec, AllVars, Promise, H!Spec
=============================================================================
