-------------------------------- MODULE StreamContract --------------------------------
(***************************************************************************)
(* What the connections of the event stream promise their clients.         *)
(* StreamSocket implements it, and BrowserClient relies on it.             *)
(***************************************************************************)
EXTENDS StreamFrames

CONSTANTS Receivers, MaxSeq

VARIABLES
  high,   \* the newest event
  wire    \* per connection: how far its frames have come

Write(c) ==
  /\ \E t \in FrameTypes, n \in 0 .. MaxSeq :
       /\ Allowed(wire[c], Frame(t, n), high)
       /\ wire' = [wire EXCEPT ![c] = Written(@, Frame(t, n))]
  /\ UNCHANGED high

Connect(c) ==
  /\ wire[c].stage = "none" /\ wire' = [wire EXCEPT ![c] = Connected]
  /\ UNCHANGED high

Ask(c) ==
  /\ wire[c].stage = "open"
  /\ \E same \in BOOLEAN, n \in 0 .. MaxSeq : wire' = [wire EXCEPT ![c] = Asked(@, same, n)]
  /\ UNCHANGED high

Misuse(c) ==
  /\ wire[c].stage # "none" /\ wire' = [wire EXCEPT ![c] = Misused(@)]
  /\ UNCHANGED high

HangUp(c) ==
  /\ wire' = [wire EXCEPT ![c] = Unconnected]
  /\ UNCHANGED high

Publish ==
  /\ high < MaxSeq /\ high' = high + 1
  /\ UNCHANGED wire

ContractInit == high = 0 /\ wire = [c \in Receivers |-> Unconnected]

ContractNext ==
  \/ Publish
  \/ \E c \in Receivers : Write(c) \/ Connect(c) \/ Ask(c) \/ Misuse(c) \/ HangUp(c)

Contract == ContractInit /\ [][ContractNext]_<<high, wire>>
=======================================================================================
