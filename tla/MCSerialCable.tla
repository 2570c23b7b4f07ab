---------------------------- MODULE MCSerialCable ----------------------------
(***************************************************************************)
(* The two kinds of line between two consoles, one after another in one    *)
(* run: the cable (SerialExchange; two-bit bytes, two clocks per bit, one  *)
(* in the fast mode) and the packet channel (LinkChannel). `subject` is    *)
(* the one a behaviour is about, and the other stays as it is first.       *)
(***************************************************************************)
EXTENDS SerialExchange, LinkChannel

CONSTANTS one, two, none

VARIABLE subject

MCBytes == { <<0, 1>>, <<1, 1>> }
MCProbe == <<0, 1>>
MCDmg   == {FALSE}
MCTicks == {1}

\* A payload that looks like a header, and another.
MCPackets == {<<"G", "B">>, <<"x", "x">>}

LineInit ==
    /\ subject \in {"cable", "channel"}
    /\ ExchangeInit /\ ChannelInit
    /\ subject # "cable" => \A c \in Consoles : port[c] = PostBoot(<<1, 1>>, 0)

LineNext ==
    /\ UNCHANGED subject
    /\ \/ subject = "cable"   /\ ExchangeNext /\ UNCHANGED chanVars
       \/ subject = "channel" /\ ChannelNext  /\ UNCHANGED exchangeVars

\* The fairness of FairExchangeSpec and of FairChannelSpec.
LineSpec ==
    /\ LineInit
    /\ [][LineNext]_<<subject, exchangeVars, chanVars>>
    /\ \A c \in Consoles : WF_exchangeVars(subject = "cable" /\ Elapse(c) /\ Remember)
    /\ \A e \in Ends : /\ WF_chanVars(subject = "channel" /\ Poll(e))
                       /\ WF_chanVars(subject = "channel" /\ Receive(e))
=============================================================================
