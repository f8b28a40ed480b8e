------------------------------ MODULE TxService ------------------------------
(***************************************************************************)
(* What a SocketCAN interface promises the network stack about the frames  *)
(* it transmits: it takes a frame only when it is up and carries none, and *)
(* it reports every frame it took exactly once, before it takes the next.  *)
(* It may jam: forget a frame and take no other until it is taken down.    *)
(* An interface in released is one the promise no longer covers.           *)
(***************************************************************************)
EXTENDS Naturals

CONSTANT Channels

VARIABLES
  link,      \* "down", "ready", "busy" with a frame, or "jammed"
  taken,     \* frames taken
  reported,  \* frames counted as sent, failed or dropped
  released   \* interfaces the promise no longer covers

svars == <<link, taken, reported, released>>

SInit ==
  /\ link = [c \in Channels |-> "down"]
  /\ taken = [c \in Channels |-> 0]
  /\ reported = [c \in Channels |-> 0]
  /\ released = {}

Goes(ch, from, to) ==
  /\ link[ch] \in from
  /\ \E l \in to : link' = [link EXCEPT ![ch] = l]

SOpen(ch) == Goes(ch, {"down"}, {"ready"}) /\ UNCHANGED <<taken, reported, released>>

SClose(ch) ==
  /\ Goes(ch, {"ready", "jammed"}, {"down"})
  /\ UNCHANGED <<taken, reported, released>>

Take(ch) ==
  /\ Goes(ch, {"ready"}, {"busy"})
  /\ taken' = [taken EXCEPT ![ch] = @ + 1]
  /\ UNCHANGED <<reported, released>>

(* The report of a frame; taking the interface down may come in between,   *)
(* and may also release the interface.                                     *)
Report(ch) ==
  /\ Goes(ch, {"busy"}, {"ready", "down"})
  /\ reported' = [reported EXCEPT ![ch] = @ + 1]
  /\ UNCHANGED taken
  /\ released' \in {released, released \cup {ch}}

Jam(ch) == Goes(ch, {"busy"}, {"jammed"}) /\ UNCHANGED <<taken, reported, released>>

Release(ch) == released' = released \cup {ch} /\ UNCHANGED <<link, taken, reported>>

Outlaw(ch) ==
  /\ ch \in released
  /\ \A c \in Channels \ {ch} : /\ link'[c] = link[c]
                                /\ taken'[c] = taken[c]
                                /\ reported'[c] = reported[c]
  /\ released' = released

SNext ==
  \E ch \in Channels : \/ SOpen(ch) \/ SClose(ch) \/ Take(ch) \/ Report(ch)
                       \/ Jam(ch) \/ Release(ch) \/ Outlaw(ch)

SSpec == SInit /\ [][SNext]_svars
=============================================================================
