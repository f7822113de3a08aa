------------------------------ MODULE TimedTables ------------------------------
(***************************************************************************)
(* Tables whose owner tells them how many seconds have gone by:            *)
(* `ForeignDeviceTable` of `src/network/mod.rs`, with the                  *)
(* `BroadcastDistributionTable` beside it by which a network sends         *)
(* broadcasts on, and `CovSubscriptionManager` of `src/service/mod.rs`.    *)
(***************************************************************************)
EXTENDS Naturals, Sequences, FiniteSets, Functions

CONSTANTS
  Addresses,   \* of devices
  Ttls,        \* times to live that are asked for
  Masks,       \* sets of networks that broadcasts are sent on for
  Elapses,     \* seconds that are told at once
  MaxEntries,  \* max_entries of both tables
  Observers,   \* of objects: devices and their processes
  Objects,     \* that are monitored
  Lifetimes,   \* of subscriptions; 0 is for good
  MaxSeconds   \* bounds the time that goes by

TablesAssumption ==
  Ttls \subseteq Nat /\ Elapses \subseteq Nat /\ Lifetimes \subseteq Nat /\ MaxSeconds \in Nat

VARIABLES
  entries,   \* ForeignDeviceTable.entries
  peers,     \* BroadcastDistributionTable.entries
  seconds,   \* the time that has gone by (history)
  until,     \* when the registration of a device runs out (history)
  meant,     \* the networks whose broadcasts an address was last said to take (history)
  subscribed,  \* CovSubscriptionManager.subscriptions
  told,      \* the time that went by for it (history)
  ends       \* when the subscription of a subscriber to an object ends (history)

registrations == <<entries, seconds, until>>
distribution == <<peers, meant>>
managed == <<subscribed, told, ends>>
tables == <<registrations, distribution, managed>>

Init ==
  /\ entries = <<>> /\ seconds = 0 /\ until = <<>>
  /\ peers = <<>> /\ meant = <<>>
  /\ subscribed = <<>> /\ told = 0 /\ ends = <<>>

\* What is left of a table when only the entries at some places are retained.
Kept(table, places) ==
  [n \in 1..Cardinality(places) |->
     table[CHOOSE i \in places : Cardinality({j \in places : j < i}) = n - 1]]

Of(table, address) == {i \in DOMAIN table : table[i].address = address}
HasEntry(table, address) == Of(table, address) # {}

\* An entry takes the place of the one for its address, or goes behind the last.
Place(table, entry) ==
  IF HasEntry(table, entry.address)
  THEN LET own == Of(table, entry.address) IN
       [table EXCEPT ![CHOOSE i \in own : \A j \in own : i <= j] = entry]
  ELSE Append(table, entry)

HasRoom(table, address) == HasEntry(table, address) \/ Len(table) < MaxEntries

Without(table, address) == Kept(table, DOMAIN table \ Of(table, address))

\* ForeignDeviceTable.register; a full table refuses.
Register(address, ttl) ==
  /\ HasRoom(entries, address)
  /\ entries' = Place(entries, [address |-> address, ttl |-> ttl, remaining_time |-> ttl])
  /\ until' = [a \in DOMAIN until \cup {address} |->
                 IF a = address THEN seconds + ttl ELSE until[a]]
  /\ UNCHANGED seconds

\* ForeignDeviceTable.delete
Delete(address) ==
  /\ entries' = Without(entries, address)
  /\ until' = Restrict(until, DOMAIN until \ {address})
  /\ UNCHANGED seconds

\* A mutant of the next: the time to live is counted from anew.
RemainingOfTtl(entry, elapsed) == entry.ttl - elapsed
Remaining(entry, elapsed) == entry.remaining_time - elapsed

\* ForeignDeviceTable.update_times
UpdateTimes(elapsed) ==
  LET alive == Kept(entries, {i \in DOMAIN entries : entries[i].remaining_time > elapsed}) IN
  /\ seconds + elapsed <= MaxSeconds /\ seconds' = seconds + elapsed
  /\ entries' = [i \in DOMAIN alive |->
                   [alive[i] EXCEPT !.remaining_time = Remaining(alive[i], elapsed)]]
  /\ UNCHANGED until

\* ForeignDeviceTable.get_active_devices: whom a broadcast is sent on to.
ActiveDevices == [i \in DOMAIN entries |-> entries[i].address]

DevicesNext ==
  \/ \E address \in Addresses :
       \/ \E ttl \in Ttls : Register(address, ttl)
       \/ Delete(address)
  \/ \E elapsed \in Elapses : UpdateTimes(elapsed)

-----------------------------------------------------------------------------
\* BroadcastDistributionTable.update_entry, which a full table refuses
UpdateEntry(address, networks, valid) ==
  /\ HasRoom(peers, address)
  /\ peers' = Place(peers, [address |-> address, networks |-> networks, valid |-> valid])
  /\ meant' = [a \in DOMAIN meant \cup {address} |->
                 IF a # address THEN meant[a] ELSE IF valid THEN networks ELSE {}]

\* remove_entry
RemoveEntry(address) ==
  /\ peers' = Without(peers, address)
  /\ meant' = Restrict(meant, DOMAIN meant \ {address})

\* clear
Clear == peers' = <<>> /\ meant' = <<>>

\* get_broadcast_addresses
BroadcastAddresses(network) ==
  LET taking == Kept(peers, {i \in DOMAIN peers : peers[i].valid /\ network \in peers[i].networks})
  IN  [i \in DOMAIN taking |-> taking[i].address]

PeersNext ==
  \/ \E address \in Addresses :
       \/ \E networks \in Masks, valid \in BOOLEAN : UpdateEntry(address, networks, valid)
       \/ RemoveEntry(address)
  \/ Clear

-----------------------------------------------------------------------------
Never == MaxSeconds + 1

KeyOf(s) == <<s.subscriber, s.object>>
AllBut(key) == Kept(subscribed, {i \in DOMAIN subscribed : KeyOf(subscribed[i]) # key})
IsExpired(s) == s.lifetime > 0 /\ s.time_remaining = 0

\* CovSubscriptionManager.add_subscription: in the place of the subscriber's earlier one to
\* the object, whatever property either is of.
AddSubscription(key, lifetime) ==
  /\ subscribed' = Append(AllBut(key),
       [subscriber |-> key[1], object |-> key[2], lifetime |-> lifetime,
        time_remaining |-> lifetime])
  /\ ends' = [k \in DOMAIN ends \cup {key} |->
                IF k # key THEN ends[k] ELSE IF lifetime = 0 THEN Never ELSE told + lifetime]
  /\ UNCHANGED told

\* CovSubscriptionManager.remove_subscription
RemoveSubscription(key) ==
  /\ subscribed' = AllBut(key)
  /\ ends' = Restrict(ends, DOMAIN ends \ {key})
  /\ UNCHANGED told

\* CovSubscriptionManager.cleanup_expired
CleanupExpired ==
  /\ subscribed' = Kept(subscribed, {i \in DOMAIN subscribed : ~IsExpired(subscribed[i])})
  /\ UNCHANGED <<told, ends>>

\* CovSubscription.update_time
Older(s, elapsed) ==
  IF s.lifetime > 0
  THEN [s EXCEPT !.time_remaining = IF @ > elapsed THEN @ - elapsed ELSE 0]
  ELSE s

\* CovSubscriptionManager.update_timers
UpdateTimers(elapsed) ==
  /\ told + elapsed <= MaxSeconds /\ told' = told + elapsed
  /\ subscribed' = [i \in DOMAIN subscribed |-> Older(subscribed[i], elapsed)]
  /\ UNCHANGED ends

\* CovSubscriptionManager.get_subscriptions_for_object
SubscriptionsFor(object) ==
  Kept(subscribed, {i \in DOMAIN subscribed :
                      subscribed[i].object = object /\ ~IsExpired(subscribed[i])})

SubscriptionsNext ==
  \/ \E key \in Observers \X Objects :
       \/ \E lifetime \in Lifetimes : AddSubscription(key, lifetime)
       \/ RemoveSubscription(key)
  \/ \E elapsed \in Elapses : UpdateTimers(elapsed)
  \/ CleanupExpired

Next ==
  \/ DevicesNext /\ UNCHANGED <<distribution, managed>>
  \/ PeersNext /\ UNCHANGED <<registrations, managed>>
  \/ SubscriptionsNext /\ UNCHANGED <<registrations, distribution>>

Spec == Init /\ [][Next]_tables

-----------------------------------------------------------------------------
\* Each of `set` is in `list`, once, and nobody else.
ListsOnce(list, set) == Range(list) = set /\ Len(list) = Cardinality(set)

\* A device is sent broadcasts until the time it registered for has gone by since it last did
\* so, in whatever pieces the time is told, and not beyond; a peer those of the networks it was
\* last said to take; and each is sent them once.  Those told of changes of an object are
\* likewise the subscribers whose last subscription to it has not ended, each once, whenever
\* the owner cleans up.
RegisteredForItsTime ==
  /\ \A address \in DOMAIN until : seconds < until[address] => HasEntry(entries, address)
  /\ \A i \in DOMAIN entries : entries[i].ttl > 0 => seconds < until[entries[i].address]
  /\ ListsOnce(ActiveDevices, Range(ActiveDevices))
  /\ \A network \in UNION Masks :
       ListsOnce(BroadcastAddresses(network), {a \in DOMAIN meant : network \in meant[a]})
  /\ \A object \in Objects :
       LET listed == SubscriptionsFor(object)
       IN  ListsOnce([i \in DOMAIN listed |-> KeyOf(listed[i])],
                     {key \in DOMAIN ends : key[2] = object /\ told < ends[key]})

=============================================================================
