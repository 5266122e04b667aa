------------------------------ MODULE MCAgentRun -------------------------------
(* Constants for checking AgentRun with TLC.                                 *)
EXTENDS AgentRunContract, ReleaseScenarios

CONSTANTS r1

Plain(line) == [lines |-> <<line>>, padded |-> FALSE]
Blank == Plain("")

NewAsk(t, amount, category, urgency, description, message) ==
    [tool |-> t, reservation |-> <<"R-3001">>, amount |-> amount, category |-> category,
     urgency |-> urgency, description |-> description, message |-> message]

Read == NewAsk("get_reservation", 0, Blank, Blank, Blank, Blank)
Order(category, urgency, description) ==
    NewAsk("create_maintenance_request", 0, category, urgency, description, Blank)
Message(text) == NewAsk("send_guest_message", 0, Blank, Blank, Blank, text)
Credit(amount) == NewAsk("issue_guest_credit", amount, Blank, Blank, Blank, Blank)
CreditRequest(amount) == NewAsk("request_guest_credit", amount, Blank, Blank, Blank, Blank)

(* Two orders that differ in their description, and one whose category runs  *)
(* over two lines, with the key of the second. A message of two lines, and   *)
(* one whose reservation runs over two lines, with the same key. Credits at  *)
(* the limit, beyond it, and within a cent of each other.                    *)
MCAsks ==
    {Read,
     Order(Plain("x"), Plain("low"), Plain("y")),
     Order(Plain("x"), Plain("low"), [lines |-> <<"low", "y">>, padded |-> FALSE]),
     Order([lines |-> <<"x", "low">>, padded |-> FALSE],
           [lines |-> <<"low">>, padded |-> TRUE], Plain("y")),
     Message([lines |-> <<"x", "y">>, padded |-> FALSE]),
     [Message(Plain("y")) EXCEPT !.reservation = <<"R-3001", "x">>],
     Message(Blank)}
    \cup {Credit(a) : a \in {24980, 24995, 25000, 25001}}
    \cup {CreditRequest(25001)}

MCAmounts == UNION {{Dollars(d) + x : x \in -2..2} : d \in {0, 25, 40, 100, 150}}

(* Of the amounts half way between two cents, those that print as the upper. *)
MCTiesUp == {24995}

(* A grant of one of the two chains of service-recovery.                     *)
MCEndings == {<<r1, "credit", 2>>}
================================================================================
