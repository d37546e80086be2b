------------------------------ MODULE Devices ------------------------------
(***************************************************************************)
(* Which device a GPU worker opens (src/src/backend/mod.rs): detect_gpus,  *)
(* dedup_opencl and select_gpu at the start, open_backend_with_fallback    *)
(* and pick_opencl_for_cuda whenever a worker opens its device, the first  *)
(* time or again.  A rig may have a graphics unit of another maker beside  *)
(* its cards, several OpenCL platforms that see the same cards, names that *)
(* differ between CUDA and OpenCL, and cards that fall off the bus.        *)
(*                                                                         *)
(* A list of devices is the set of its entries, which are in the order of  *)
(* their platforms and, on one platform, of their cards; CUDA counts as    *)
(* platform 0.  A worker is known by the device it was started for.        *)
(***************************************************************************)
EXTENDS Naturals, FiniteSets

CONSTANTS
    Cards,          \* the rig's NVIDIA cards, by CUDA ordinal
    Models,         \* names of cards
    NumPlatforms,   \* OpenCL platforms
    MaxVanish       \* bound: cards that fall off the bus

ASSUME DevicesAssumption ==
    /\ Cards \subseteq Nat \ {0} /\ IsFiniteSet(Cards)
    /\ NumPlatforms \in Nat \ {0} /\ MaxVanish \in Nat
    /\ Models \cap {"renamed", "igpu"} = {}

IGpu == 0           \* the other maker's graphics unit
Cuda == 0           \* the platform of the devices that CUDA lists

VARIABLES
    model,          \* the name of each card,
    renamed,        \* whether OpenCL calls the cards otherwise,
    igpu,           \* whether there is another maker's unit,
    cuda,           \* the cards CUDA lists and
    sees,           \* the cards each OpenCL platform lists (all external)
    shrunk,         \* history: a card has gone from those
    started,        \* whether main has started the workers
    index,          \* the place of each worker's device on its platform
    status,         \* of each worker: "closed", "open", "failed" or "stopped"
    on              \* the card an open worker really is on

rig == <<model, renamed, igpu>>
devicesVars == <<rig, cuda, sees, shrunk, started, index, status, on>>

Workers == DOMAIN status
Platforms == 1..NumPlatforms

\* A driver with CUDA gives OpenCL all cards, or has no OpenCL; without CUDA a
\* platform may know some of the cards only.
DevicesInit ==
    /\ model \in [Cards -> Models]
    /\ renamed \in BOOLEAN /\ igpu \in BOOLEAN
    /\ cuda \in {{}, Cards}
    /\ sees \in [Platforms -> IF cuda = {} THEN SUBSET Cards ELSE {{}, Cards}]
    /\ shrunk = FALSE /\ started = FALSE
    /\ index = [w \in {} |-> 0] /\ status = [w \in {} |-> "closed"] /\ on = [w \in {} |-> IGpu]

-----------------------------------------------------------------------------
\* OpenCL may call every card otherwise than CUDA does.
Device(p, c) ==
    [platform |-> p, card |-> c, vendor |-> IF c = IGpu THEN "intel" ELSE "nvidia",
     name |-> IF c = IGpu THEN "igpu" ELSE IF renamed /\ p # Cuda THEN "renamed" ELSE model[c]]

Earlier(d, e) == d.platform < e.platform \/ (d.platform = e.platform /\ d.card < e.card)

\* How many entries of a list come before one.
Ahead(list, dev) == Cardinality({d \in list : Earlier(d, dev)})

\* cuda::list_devices and opencl::list_devices (external).  `card' is what no
\* runtime tells.
CudaList == {Device(Cuda, c) : c \in cuda}
Listed(p) == {Device(p, c) : c \in sees[p]}
Other == {Device(p, IGpu) : p \in {q \in Platforms : q = 1 /\ igpu}}
OpenclList == Other \cup UNION {Listed(p) : p \in Platforms}

\* A device's number on its platform.
Number(list, dev) == Ahead({d \in list : d.platform = dev.platform}, dev)

\* Mutant: every platform's view is kept.
DedupNothing(devices) == devices

\* Platform p, which lists m of a card, goes before q, which lists n.
Before(m, p, n, q) == m > n \/ (m = n /\ p <= q)

\* dedup_opencl: for each vendor and name the platform that lists most of it,
\* the lowest of equals.
Dedup(devices) ==
    LET key(d) == <<d.vendor, d.name>>
        count(k, p) == Cardinality({d \in devices : key(d) = k /\ d.platform = p})
        winner(k) == CHOOSE p \in Platforms : \A q \in Platforms : Before(count(k, p), p, count(k, q), q)
    IN  {d \in devices : d.platform = winner(key(d))}

\* detect_gpus, before --gpu-id.
Found(kind) ==
    CASE kind \in {"auto", "cuda"} /\ cuda # {} -> CudaList
      [] kind = "opencl" \/ (kind = "auto" /\ cuda = {}) -> Dedup(OpenclList)
      [] kind = "cuda" /\ cuda = {} -> {}

Closed(devices) == [w \in devices |-> "closed"]

\* main starts a worker for every device detect_gpus returns; select_gpu
\* narrows them down to the one --gpu-id names, or ends the miner.
Start(kind, gpuId) ==
    /\ ~started /\ started' = TRUE
    /\ LET found == Found(kind)
           devices == IF gpuId = {} THEN found ELSE {d \in found : Ahead(found, d) \in gpuId}
       IN  /\ status' = Closed(devices) /\ on' = [w \in devices |-> IGpu]
           /\ index' = [w \in devices |-> Number(OpenclList, w)]
    /\ UNCHANGED <<rig, cuda, sees, shrunk>>

-----------------------------------------------------------------------------
\* Mutant: the card's ordinal taken for its place among cards of its name.
RankByOrdinal(list, dev) == {dev.card - 1}

\* The place of a card among the CUDA devices of its name, if it is listed.
Rank(list, dev) == IF dev \in list THEN {Ahead({d \in list : d.name = dev.name}, dev)} ELSE {}

\* pick_opencl_for_cuda: one device or none.
Pick(list, opencl, dev) ==
    LET byName == {d \in opencl : d.name = dev.name}
        ranked == {d \in byName : Ahead(byName, d) \in Rank(list, dev)}
        nvidia == {d \in opencl : d.vendor = "nvidia"}
        alone == Cardinality(list) = 1
    IN  IF ranked # {} THEN ranked
        ELSE IF Cardinality(nvidia) = 1 /\ alone THEN nvidia
        ELSE IF Cardinality(opencl) = 1 /\ alone THEN opencl
        ELSE {}

Becomes(w, st, card) ==
    /\ status' = [status EXCEPT ![w] = st]
    /\ on' = [on EXCEPT ![w] = card]
    /\ UNCHANGED <<rig, cuda, sees, shrunk, started, index>>

\* open_backend: CUDA's device by its ordinal, OpenCL's by its number in what its
\* platform lists now, if there is one.
Opens(w) ==
    /\ status[w] = "closed"
    /\ \E d \in CudaList \cup OpenclList :
          /\ IF w.platform = Cuda THEN d = w
             ELSE d.platform = w.platform /\ Number(OpenclList, d) = index[w]
          /\ Becomes(w, "open", d.card)

Picked(w) == IF w.platform = Cuda THEN Pick(CudaList, OpenclList, w) ELSE {}

\* It does not, and a CUDA device is tried through OpenCL, which may fail too:
\* the worker ends, with no device to try or with one that did not open.
FallsBack(w) ==
    /\ status[w] = "closed"
    /\ IF Picked(w) = {} THEN Becomes(w, "stopped", IGpu)
       ELSE \E d \in Picked(w) : Becomes(w, "open", d.card) \/ Becomes(w, "failed", IGpu)

\* A card falls off the bus: CUDA no longer lists it, nor, perhaps, does
\* OpenCL; the worker on it has to open its device again.
Vanishes(c, fromOpencl) ==
    /\ started
    /\ c \in cuda /\ Cardinality(Cards \ cuda) < MaxVanish
    /\ cuda' = cuda \ {c}
    /\ sees' = IF fromOpencl THEN [p \in Platforms |-> sees[p] \ {c}] ELSE sees
    /\ shrunk' = (shrunk \/ sees' # sees)
    /\ status' = [w \in Workers |-> IF status[w] = "open" /\ on[w] = c THEN "closed" ELSE status[w]]
    /\ UNCHANGED <<rig, started, index, on>>

DevicesNext ==
    \/ \E kind \in {"auto", "cuda", "opencl"}, gpuId \in {{}} \cup {{c - 1} : c \in Cards} : Start(kind, gpuId)
    \/ \E w \in Workers : Opens(w) \/ FallsBack(w)
    \/ \E c \in Cards, fromOpencl \in BOOLEAN : Vanishes(c, fromOpencl)

DevicesSpec == DevicesInit /\ [][DevicesNext]_devicesVars

-----------------------------------------------------------------------------
AnyDevice == {Device(p, c) : p \in {Cuda} \cup Platforms, c \in Cards \cup {IGpu}}

DevicesTypeOK ==
    /\ model \in [Cards -> Models] /\ renamed \in BOOLEAN /\ igpu \in BOOLEAN
    /\ cuda \subseteq Cards /\ sees \in [Platforms -> SUBSET Cards]
    /\ shrunk \in BOOLEAN /\ started \in BOOLEAN
    /\ Workers \subseteq AnyDevice
    /\ index \in [Workers -> Nat]
    /\ status \in [Workers -> {"closed", "open", "failed", "stopped"}]
    /\ on \in [Workers -> Cards \cup {IGpu}]

CudaWorkers == {w \in Workers : w.platform = Cuda}

\* dedup_opencl: no two workers on one card seen by two platforms, as long as
\* OpenCL lists the cards it did; nor, as long as CUDA lists every card, on one
\* that a worker of CUDA's falls back to: numbers and ranks taken before and
\* after a card has gone may name one card.
NoSharedCard ==
    cuda = Cards \/ (CudaWorkers = {} /\ ~shrunk) =>
        \A v, w \in Workers : v # w /\ status[v] = "open" /\ status[w] = "open" => on[v] # on[w]

\* pick_opencl_for_cuda: "That mapping is injective: each worker passes its own
\* rank, so no two land on one device"; and the tests' "a vanished device must
\* not get any device at all".  Whatever has vanished from either list, unless
\* CUDA lists one card only: the branches for a rig with a single card apply to
\* the workers of the vanished ones too.
PicksApart ==
    Cardinality(cuda) # 1 =>
        /\ \A v, w \in CudaWorkers : v # w => \A d \in Picked(v), e \in Picked(w) : d.card # e.card
        /\ \A w \in CudaWorkers : w.card \notin cuda => Picked(w) = {}

\* Every worker is on a card of its own.
CardsKeptApart == NoSharedCard /\ PicksApart

\* A worker whose card CUDA lists but cannot open finds it through OpenCL, when
\* OpenCL lists every card by the same name: no card is lost on a mixed rig.
NoCardLost ==
    \A w \in CudaWorkers :
        cuda = Cards /\ ~renamed /\ (\E p \in Platforms : sees[p] = Cards) => status[w] # "stopped"

=============================================================================
