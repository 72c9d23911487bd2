-------------------------------- MODULE Hub --------------------------------
(***************************************************************************)
(* The hub of the desktop tool: the table of the devices on the network,   *)
(* fed by datagrams that may be lost.  Phones announce themselves every    *)
(* few seconds; computers, and phones whose user accepts files, answer the *)
(* hub's discovery requests; the page of the hub lists the devices heard   *)
(* of lately.  Time is in seconds.                                         *)
(***************************************************************************)
EXTENDS Naturals, FiniteSets, Functions

CONSTANTS
    Phones, Computers,
    AnnounceEvery, DiscoverEvery,       \* the waits between two broadcasts
    MaxDelay,                           \* bound: what sending one takes
    PhoneTtl, ComputerTtl,              \* how long a device stays listed
    LostAnnouncements, LostAnswers      \* bound: datagrams lost in a row

VARIABLES
    devices,        \* devices_
    age,            \* how long ago each entry was seen
    present,        \* the devices that are switched on, with the application open
    sharing,        \* the phones that share files
    receiving,      \* the phones whose user accepts files
    announceIn, discoverIn,     \* until the next broadcast
    lost,           \* datagrams lost in a row, per device and kind
    heard           \* the devices heard of since they are present

vars == <<devices, age, present, sharing, receiving, announceIn, discoverIn, lost, heard>>

Addresses == Phones \cup Computers
Kinds == {"phone", "computer"}

Init ==
    /\ devices = <<>> /\ age = <<>>
    /\ present = Addresses /\ sharing = {} /\ receiving = Phones
    /\ announceIn = [p \in Phones |-> 0] /\ discoverIn = 0
    /\ lost = [a \in Addresses |-> [k \in Kinds |-> 0]]
    /\ heard = {}

-----------------------------------------------------------------------------
Key(kind, address) == <<kind, address>>
Ttl_Short(kind) == IF kind = "phone" THEN PhoneTtl - 1 ELSE ComputerTtl
Ttl(kind) == IF kind = "phone" THEN PhoneTtl ELSE ComputerTtl

Expired(key) == age[key] > Ttl(key[1])

(* Hub::phone *)
Phone(d, address) ==
    LET k == Key("phone", address)
    IN  [x \in (DOMAIN d \ {Key("computer", address)}) \cup {k} |->
            IF x = k THEN [share |-> address \in sharing, receives |-> k \in DOMAIN d /\ d[k].receives]
            ELSE d[x]]

(* Hub::computer, for the answers of several devices *)
Computer(d, addresses) ==
    LET phones == {a \in addresses : Key("phone", a) \in DOMAIN d}
        added == {Key("computer", a) : a \in addresses \ phones}
    IN  [x \in DOMAIN d \cup added |->
            IF x \in added THEN [share |-> FALSE, receives |-> FALSE]
            ELSE IF x[1] = "phone" /\ x[2] \in phones THEN [d[x] EXCEPT !.receives = TRUE]
            ELSE d[x]]

Seen(d, keys) == [x \in DOMAIN d |-> IF x \in keys THEN 0 ELSE age[x]]
Lose(addresses, got, kind) ==
    [a \in Addresses |-> [lost[a] EXCEPT ![kind] = IF a \in got THEN 0
                                                  ELSE IF a \in addresses THEN @ + 1 ELSE @]]

(* Announcer.loop, and ANNOUNCE in udpLoop *)
Announce(p) ==
    /\ p \in present /\ announceIn[p] = 0
    /\ \E delay \in 0 .. MaxDelay :
          announceIn' = [announceIn EXCEPT ![p] = AnnounceEvery + delay]
    /\ \/ /\ devices' = Phone(devices, p)
          /\ age' = Seen(devices', {Key("phone", p)})
          /\ lost' = Lose({p}, {p}, "phone")
          /\ heard' = heard \cup {p}
       \/ /\ lost[p]["phone"] < LostAnnouncements
          /\ lost' = Lose({p}, {}, "phone")
          /\ UNCHANGED <<devices, age, heard>>
    /\ UNCHANGED <<present, sharing, receiving, discoverIn>>

(* hubDiscovery: who answers, and HERE in udpLoop *)
Answering == present \cap (Computers \cup receiving)

Discover ==
    /\ discoverIn = 0
    /\ \E delay \in 0 .. MaxDelay : discoverIn' = DiscoverEvery + delay
    /\ \E got \in SUBSET Answering :
          /\ \A a \in Answering \ got : lost[a]["computer"] < LostAnswers
          /\ devices' = Computer(devices, got)
          /\ age' = Seen(devices', {Key("computer", a) : a \in got})
          /\ lost' = Lose(Answering, got, "computer")
          /\ heard' = heard \cup (got \cap Computers)
    /\ UNCHANGED <<present, sharing, receiving, announceIn>>

(* Hub::json removes what has expired. *)
Json ==
    /\ \E x \in DOMAIN devices : Expired(x)
    /\ devices' = Restrict(devices, {x \in DOMAIN devices : ~Expired(x)})
    /\ age' = Restrict(age, DOMAIN devices')
    /\ UNCHANGED <<present, sharing, receiving, announceIn, discoverIn, lost, heard>>

(* A second passes, unless a broadcast is due. *)
Tick ==
    /\ discoverIn > 0 /\ \A p \in Phones \cap present : announceIn[p] > 0
    /\ discoverIn' = discoverIn - 1
    /\ announceIn' = [p \in Phones |-> IF p \in present THEN announceIn[p] - 1 ELSE 0]
    /\ age' = [x \in DOMAIN age |-> IF Expired(x) THEN age[x] ELSE age[x] + 1]
    /\ UNCHANGED <<devices, present, sharing, receiving, lost, heard>>

(* The users: a share starts or stops and is announced at once, unless the *)
(* announcer is sending and misses poke(); a box is ticked, an application *)
(* is closed or opened.                                                    *)
ToggleShare(p) ==
    /\ p \in present
    /\ sharing' = IF p \in sharing THEN sharing \ {p} ELSE sharing \cup {p}
    /\ \/ announceIn[p] <= AnnounceEvery /\ announceIn' = [announceIn EXCEPT ![p] = 0]
       \/ announceIn[p] >= AnnounceEvery /\ UNCHANGED announceIn
    /\ UNCHANGED <<devices, age, present, receiving, discoverIn, lost, heard>>

ToggleReceiving(p) ==
    /\ receiving' = IF p \in receiving THEN receiving \ {p} ELSE receiving \cup {p}
    /\ UNCHANGED <<devices, age, present, sharing, announceIn, discoverIn, lost, heard>>

Leave(a) ==
    /\ a \in present
    /\ present' = present \ {a} /\ sharing' = sharing \ {a} /\ heard' = heard \ {a}
    /\ lost' = [lost EXCEPT ![a] = [k \in Kinds |-> 0]]
    /\ announceIn' = [p \in Phones |-> IF p = a THEN 0 ELSE announceIn[p]]
    /\ UNCHANGED <<devices, age, receiving, discoverIn>>

Enter(a) ==
    /\ a \notin present
    /\ present' = present \cup {a}
    /\ UNCHANGED <<devices, age, sharing, receiving, announceIn, discoverIn, lost, heard>>

Next ==
    \/ \E p \in Phones : Announce(p) \/ ToggleShare(p) \/ ToggleReceiving(p)
    \/ \E a \in Addresses : Leave(a) \/ Enter(a)
    \/ Discover \/ Json \/ Tick

Spec == Init /\ [][Next]_vars

FairSpec ==
    Spec /\ WF_vars(Tick) /\ WF_vars(Discover) /\ WF_vars(Json)
         /\ \A p \in Phones : SF_vars(Announce(p))

-----------------------------------------------------------------------------
(* What the page lists *)
Listed(kind, address) ==
    Key(kind, address) \in DOMAIN devices /\ ~(age[Key(kind, address)] > Ttl(kind))

(* "phones announce every few seconds, computers answer every 10 s": the   *)
(* times entries are kept are long enough that a device that is there does *)
(* not vanish from the page although as many announcements or answers are  *)
(* lost in a row as the constants say, and sending takes as long.          *)
PresentIsListed ==
    \A a \in heard : Listed(IF a \in Phones THEN "phone" ELSE "computer", a)
=============================================================================
