------------------------------ MODULE Handover ------------------------------
(***************************************************************************)
(* What pairing promises, whatever becomes of polls and deadlines: a login *)
(* is granted at most one token, a new one; the token goes to the machine  *)
(* of that login or to nobody; and a login that has lost its chance, by    *)
(* expiry or with a lost answer, never gets it back.  Pairing implements   *)
(* this: see Promise there.                                                *)
(***************************************************************************)
EXTENDS Integers

CONSTANTS
    Login,         \* runs of `vvibe login`
    Machine        \* the machines they are run on

NoGift == 0

VARIABLES
    machine,       \* machine[k]: where login k was started
    place,         \* place[k]: where its token is
    gift,          \* gift[k]: its token
    granted,       \* tokens granted so far
    kept           \* kept[m]: the token machine m keeps

gifts == <<machine, place, gift, granted, kept>>

Place == {"open", "held", "sent", "received", "lost"}

Init ==
    /\ machine \in [Login -> Machine]
    /\ place = [k \in Login |-> "open"]
    /\ gift = [k \in Login |-> NoGift]
    /\ granted = 0
    /\ kept = [m \in Machine |-> NoGift]

Goes(k, from, to) ==
    /\ place[k] \in from
    /\ place' = [place EXCEPT ![k] = to]

Grant(k) ==
    /\ Goes(k, {"open"}, "held")
    /\ granted' = granted + 1
    /\ gift' = [gift EXCEPT ![k] = granted']
    /\ UNCHANGED <<machine, kept>>

Send(k) ==
    /\ Goes(k, {"held"}, "sent")
    /\ UNCHANGED <<machine, gift, granted, kept>>

Receive(k) ==
    /\ Goes(k, {"sent"}, "received")
    /\ kept' = [kept EXCEPT ![machine[k]] = gift[k]]
    /\ UNCHANGED <<machine, gift, granted>>

Lose(k) ==
    /\ Goes(k, {"open", "held", "sent"}, "lost")
    /\ gift' = [gift EXCEPT ![k] = NoGift]
    /\ UNCHANGED <<machine, granted, kept>>

Next == \E k \in Login : Grant(k) \/ Send(k) \/ Receive(k) \/ Lose(k)

Spec == Init /\ [][Next]_gifts
=============================================================================
