------------------------------ MODULE Discovery ------------------------------
(***************************************************************************)
(* Finding the Mac on the local network (windows-sender/src/net/           *)
(* discovery.rs and the receiver's Net/DiscoveryResponder.swift).          *)
(*                                                                         *)
(* A search runs on a thread of its own: it broadcasts a probe on every    *)
(* subnet, collects what answers until its time is up and leaves the hosts *)
(* for the window to take. Probes and answers are datagrams: lost,         *)
(* doubled, out of order, and whatever else is sent to the port.           *)
(***************************************************************************)
EXTENDS Integers, FiniteSets, Sequences, SequencesExt

CONSTANTS
  Macs,               \* every way a Mac can answer: [address, name, subnet]
  MaxSearchFailures   \* bound: search threads that cannot be started

Subnets   == {m.subnet : m \in Macs}
Addresses == {m.address : m \in Macs}
NoName    == ""
Hosts     == Addresses \union ({m.name : m \in Macs} \ {NoName})

ASSUME DiscoveryConstants ==
  /\ MaxSearchFailures \in Nat /\ IsFiniteSet(Macs)
  /\ \A m, n \in Macs : m.address = n.address => m = n

VARIABLES
  running,   \* Search.running
  fresh,     \* Search.fresh: the hosts to offer, not taken yet, or Nothing
  finder,    \* the search thread: what it is at, and the subnets it asked on
  searchFailures  \* counter of the bound


Nothing == <<>>
NotSearching == [pc |-> "none", sent |-> {}]

DiscoveryTypeOK ==
  /\ running \in BOOLEAN /\ fresh \in Seq(Hosts)
  /\ finder \in [pc : {"none", "probe", "listen"}, sent : SUBSET Subnets]
  /\ searchFailures \in 0..MaxSearchFailures

DiscoveryInit ==
  /\ running = FALSE /\ fresh = Nothing
  /\ finder = NotSearching
  /\ searchFailures = 0

-----------------------------------------------------------------------------
(* The .local name if it has one: it survives a new lease. *)
preferred_host(m) == IF m.name = NoName THEN m.address ELSE m.name

Add(hosts, h) == IF Contains(hosts, h) THEN hosts ELSE Append(hosts, h)

(* Both spellings of every answer, the preferred one first, none twice.    *)
hosts_of(found) ==
  FoldLeft(LAMBDA hosts, m : Add(Add(hosts, preferred_host(m)), m.address), Nothing, found)

-----------------------------------------------------------------------------
(* Called by the window, which takes what is fresh in the same handler. A  *)
(* thread that cannot be started leaves running set.                       *)
start_search ==
  \/ /\ running
     /\ UNCHANGED <<running, finder, searchFailures>>
  \/ /\ ~running /\ running' = TRUE
     /\ \/ /\ finder' = [NotSearching EXCEPT !.pc = "probe"]
           /\ UNCHANGED searchFailures
        \/ /\ searchFailures < MaxSearchFailures /\ searchFailures' = searchFailures + 1
           /\ UNCHANGED finder

report(hosts) ==
  /\ running' = FALSE /\ fresh' = hosts
  /\ finder' = NotSearching
  /\ UNCHANGED searchFailures

find_probes_silent == \* mutant: a probe that cannot be sent is not reported
  /\ finder.pc = "probe"
  /\ \E sent \in SUBSET Subnets :
       finder' = IF sent = {} THEN NotSearching ELSE [pc |-> "listen", sent |-> sent]
  /\ UNCHANGED <<running, fresh, searchFailures>>

(* The probe goes out on the subnets it can be sent on. *)
find_probes ==
  /\ finder.pc = "probe"
  /\ \E sent \in SUBSET Subnets :
       \/ /\ sent = {} /\ report(Nothing)
       \/ /\ sent # {}
          /\ finder' = [pc |-> "listen", sent |-> sent]
          /\ UNCHANGED <<running, fresh, searchFailures>>

(* Its 1.2 seconds are up. Until then it has taken the answers that came,  *)
(* in the order they came, skipping what does not parse and what comes     *)
(* from an address that has answered already.                              *)
find_ends ==
  /\ finder.pc = "listen"
  /\ \E heard \in SUBSET {m \in Macs : m.subnet \in finder.sent} :
       \E found \in SetToSeqs(heard) : report(hosts_of(found))

finder_step == find_probes \/ find_ends

-----------------------------------------------------------------------------
(* discovery.rs:276: a search that was started ends, whoever answers.      *)
SearchEnds == running ~> (~running \/ searchFailures > 0)
=============================================================================
