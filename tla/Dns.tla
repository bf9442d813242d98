-------------------------------- MODULE Dns --------------------------------
(***************************************************************************)
(* DnsService: a thread that resolves the added hosts again and again, the *)
(* table it shares with the threads that ask, and its start and stop.      *)
(***************************************************************************)
EXTENDS Integers, FiniteSets

CONSTANTS
  Hosts,
  Addresses,    (* sets of addresses a lookup may yield                     *)
  Retry,        (* retry_                                                   *)
  NotAdded      (* hosts_info_ has no entry                                 *)

ASSUME DnsAssumption == NotAdded \notin Addresses \cup {{}} /\ Retry \in Nat \ {0}

VARIABLES
  hosts,        (* hosts_info_                                              *)
  todo,         (* of the worker's copy: hosts not yet resolved             *)
  tries,        (* i of onWork                                              *)
  worker,       (* thread_: "none", "test", "hosts", "wait", "over"         *)
  serving,      (* running_                                                 *)
  stopper,      (* stop(): "idle", "notify", "join"                         *)
  stops         (* history: stop() returned and start() was not called      *)

dnsVars == <<hosts, todo, tries, worker, serving, stopper, stops>>

AddHostAnyway(h) ==                                     (* mutant *)
  /\ hosts' = [hosts EXCEPT ![h] = {}]
  /\ UNCHANGED <<todo, tries, worker, serving, stopper, stops>>

AddHost(h) ==
  /\ hosts[h] = NotAdded
  /\ hosts' = [hosts EXCEPT ![h] = {}]
  /\ UNCHANGED <<todo, tries, worker, serving, stopper, stops>>

(* A second start() without a stop() would destroy a running thread_.      *)
Start ==
  /\ worker = "none" /\ stopper = "idle"
  /\ serving' = TRUE /\ worker' = "test" /\ stops' = FALSE
  /\ UNCHANGED <<hosts, todo, tries, stopper>>

(* stop(): running_, then the lock and the notification, then the join     *)
Stop ==
  /\ stopper = "idle"
  /\ serving' = FALSE /\ stopper' = "notify"
  /\ UNCHANGED <<hosts, todo, tries, worker, stops>>

Notify ==
  /\ stopper = "notify" /\ stopper' = "join"
  /\ worker' = IF worker = "wait" THEN "test" ELSE worker
  /\ UNCHANGED <<hosts, todo, tries, serving, stops>>

Join ==
  /\ stopper = "join" /\ worker \in {"over", "none"}
  /\ stopper' = "idle" /\ worker' = "none" /\ stops' = TRUE
  /\ UNCHANGED <<hosts, todo, tries, serving>>

(* The head of onWork's loop *)
Test ==
  /\ worker = "test"
  /\ worker' = IF serving THEN "hosts" ELSE "over"
  /\ todo' = IF serving THEN {h \in Hosts : hosts[h] # NotAdded} ELSE {}
  /\ tries' = 0
  /\ UNCHANGED <<hosts, serving, stopper, stops>>

Update(h, list) == IF list = {} THEN hosts ELSE [hosts EXCEPT ![h] = list]

TriesAgain(list) == list = {} /\ tries + 1 < Retry

(* getHostInfo for the next host, which yields nothing, addresses, or what *)
(* an uninitialized res points at; then updateHost, or another try after   *)
(* sleep_                                                                  *)
Lookup(list) ==
  /\ worker = "hosts" /\ todo # {}
  /\ LET h == CHOOSE h \in todo : TRUE IN
       /\ hosts' = Update(h, list)
       /\ todo' = IF TriesAgain(list) THEN todo ELSE todo \ {h}
  /\ tries' = IF TriesAgain(list) THEN tries + 1 ELSE 0
  /\ UNCHANGED <<worker, serving, stopper, stops>>

Waits ==
  /\ worker = "hosts" /\ todo = {}
  /\ worker' = "wait"
  /\ UNCHANGED <<hosts, todo, tries, serving, stopper, stops>>

(* wait_for is over after interval_ *)
TimesOut ==
  /\ worker = "wait" /\ worker' = "test"
  /\ UNCHANGED <<hosts, todo, tries, serving, stopper, stops>>

DnsInit ==
  /\ hosts = [h \in Hosts |-> NotAdded] /\ todo = {} /\ tries = 0
  /\ worker = "none" /\ serving = FALSE /\ stopper = "idle" /\ stops = FALSE

DnsNext ==
  \/ Start \/ Stop \/ Notify \/ Join \/ Test \/ Waits \/ TimesOut
  \/ \E h \in Hosts : AddHost(h)
  \/ \E list \in Addresses \cup {{}} : Lookup(list)

DnsSpec == DnsInit /\ [][DnsNext]_dnsVars
-----------------------------------------------------------------------------
(* Properties *)

(* A thread has hosts to look up only among those added, and there is none *)
(* when stop() has returned, wherever it was when stop() came.             *)
DnsTypeOK ==
  /\ hosts \in [Hosts -> {NotAdded, {}} \cup Addresses] /\ tries \in 0 .. Retry - 1
  /\ worker \in {"none", "test", "hosts", "wait", "over"} /\ serving \in BOOLEAN
  /\ stopper \in {"idle", "notify", "join"} /\ stops \in BOOLEAN
  /\ todo \subseteq {h \in Hosts : hosts[h] # NotAdded}
  /\ stops => worker = "none"

(* A host that was resolved once is answered with an address ever after:   *)
(* adding it again and lookups that fail leave it alone.                   *)
ResolvedStays ==
  [][\A h \in Hosts : hosts[h] \notin {NotAdded, {}} => hosts'[h] \notin {NotAdded, {}}]_dnsVars
=============================================================================
