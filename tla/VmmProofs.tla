----------------------------- MODULE VmmProofs -----------------------------
(***************************************************************************)
(* The page directories of SimpleOS, for every size of memory and of the   *)
(* tables, every memory map, every number of processes and a tick between  *)
(* any two steps of a command.                                             *)
(***************************************************************************)
EXTENDS Vmm, FiniteSetTheorems, WellFoundedInduction, TLAPS

(* The slots, table entries and locals that hold f, one kind at a time. *)
Holds(k, d, i, j, f) ==
  \/ k = "dir" /\ i = 0 /\ j = 0 /\ d \in LiveDirs \ {KernelPD} /\ d = f
  \/ k = "kstack" /\ i = 0 /\ j = 0 /\ \E p \in processes \cup {new} : p.dir = d /\ p.kstack = f
  \/ k = "phys" /\ d = 0 /\ i = 0 /\ j = 0 /\ stage \notin {"idle", "use"} /\ phys = f
  \/ k = "pt_phys" /\ d = 0 /\ i = 0 /\ j = 0 /\ stage = "link" /\ pt_phys = f
  \/ k = "table" /\ d \in LiveDirs /\ i \in User /\ j = 0 /\ mem[d][i] = f
  \/ k = "page" /\ d \in LiveDirs /\ i \in User /\ j \in Index /\ Translate(mem, d, i, j) = f

HeldBy(a, b, c, e, f) ==
  \A k, d, i, j : Holds(k, d, i, j, f) <=> k = a /\ d = b /\ i = c /\ j = e

(* Frame f is held by no table, directory or stack: at most by a local. *)
Detached(f) == \A k, d, i, j : Holds(k, d, i, j, f) => k \in {"phys", "pt_phys"}

Single(f) == IF f \in used THEN \E o : Owners(f) = {o} ELSE Owners(f) = {}

Slots == [dir : Frames, kstack : Frames, ustack : Frames]

Types ==
  /\ reserved \in Maps /\ reserved \subseteq used /\ used \in SUBSET Frames
  /\ mem \in [Frames -> [Index -> Int]]
  /\ processes \in SUBSET Slots /\ new \in Slots
  /\ phys \in Frames /\ pt_phys \in Frames

(* A directory maps the first table, and tables of its own. *)
Directory(d) ==
  /\ d \in Frames /\ (d = KernelPD \/ d \notin reserved) /\ mem[d][0] = FirstTable
  /\ \A i \in User : mem[d][i] = None \/ mem[d][i] \in Frames \ reserved

(* The directory vmm_map_page works on. *)
Target == IF op = "create" THEN new.dir ELSE KernelPD

(* Which command is at which stage, and the fields of the slot. *)
Commands ==
  /\ new = [dir |-> new.dir, kstack |-> new.kstack, ustack |-> new.ustack]
  /\ stage \in {"dir", "fill", "kstack", "keep", "ustack", "switch", "code", "context", "undo"}
       => op = "create"
  /\ stage \in {"use", "free"} => op \in {"alloc", "usermode"}
  /\ stage \in {"map", "link", "entry"} => op \in {"create", "alloc", "usermode"}
  /\ stage = "idle" => op = "none"

(* The slot and the locals at each stage. *)
Stages ==
  /\ stage \in {"idle", "dir", "fill"} \/ op # "create" => new = NoSlot
  /\ op = "create" /\ stage \notin {"dir", "fill"} => new.dir \notin reserved
  /\ stage \in {"kstack", "keep"} => new.kstack = 0
  /\ stage \in {"idle", "dir", "kstack", "ustack", "code", "context"} => phys = 0
  /\ stage \in {"fill", "keep", "switch", "map", "link", "entry", "use", "free"}
       => phys \notin reserved
  /\ stage = "link" => pt_phys \notin reserved

(* What the tables say at each stage. *)
Entered ==
  /\ op = "create" /\ stage \in {"kstack", "keep", "ustack", "switch", "map", "link"}
       => \A i \in User : mem[new.dir][i] = None
  /\ stage = "link" => mem[Target][Pd] = None
  /\ stage = "entry" => mem[Target][Pd] # None /\ Translate(mem, Target, Pd, Pt) = None
  /\ stage = "use" => mem[KernelPD][TestPd] # None /\ Translate(mem, KernelPD, TestPd, Pt) = phys
  /\ \A j \in Index : (stage = "use" /\ j = Pt) \/ Translate(mem, KernelPD, TestPd, j) = None
  /\ stage \in {"code", "context"} =>
       new.ustack \notin reserved /\ Translate(mem, new.dir, StackPd, LastPt) = new.ustack

Singles == \A f \in Frames \ reserved : Single(f)

Trees ==
  /\ mem[FirstTable] = [j \in Index |-> j]
  /\ \A d \in LiveDirs : Directory(d)
  /\ \A p \in processes :
       p.dir \notin reserved /\ p.ustack \notin reserved /\ Translate(mem, p.dir, StackPd, LastPt) = p.ustack

Tree == Types /\ Commands /\ Stages /\ Entered /\ Singles /\ Trees

VmmInv == Commands /\ DirectoryRestored /\ (~destroyed => Tree)

-----------------------------------------------------------------------------
LEMMA LeastNat ==
  ASSUME NEW T \in SUBSET Nat, T # {}
  PROVE  \E i \in T : \A j \in T : i <= j
<1> DEFINE R == {ss \in Nat \X Nat : ss[1] < ss[2]}
<1>1. IsWellFoundedOn(R, Nat)
  BY NatLessThanWellFounded DEF OpToRel
<1>2. \A a, b \in Nat : a < b => <<a, b>> \in R
  OBVIOUS
<1> HIDE DEF R
<1>3. PICK i \in T : \A j \in T : ~ (<<j, i>> \in R)
  BY <1>1, WFMin
<1>4. \A j \in T : ~ (j < i)
  BY <1>2, <1>3, Zenon
<1> QED
  BY <1>4

(* pmm_alloc_page gives a frame that is free, or none. *)
LEMMA AllocIsFree ==
  ASSUME NEW u
  PROVE  pmm_alloc_page(u) = 0 \/ pmm_alloc_page(u) \in Frames \ (u \cup {0})
<1> DEFINE free == Frames \ (u \cup {0})
<1>1. free \in SUBSET Nat
  BY LayoutAssumption DEF Frames
<1>2. free # {} => \E f \in free : \A g \in free : f <= g
  BY <1>1, LeastNat
<1> QED
  BY <1>2 DEF pmm_alloc_page

(* The owners of a frame, as a predicate. *)
LEMMA OwnersAre ==
  \A f, o : o \in Owners(f) <=> \E k, d, i, j : o = <<k, d, i, j>> /\ Holds(k, d, i, j, f)
<1> SUFFICES ASSUME NEW f, NEW o
             PROVE  o \in Owners(f) <=> \E k, d, i, j : o = <<k, d, i, j>> /\ Holds(k, d, i, j, f)
  OBVIOUS
<1>1. ASSUME o \in Owners(f)
      PROVE  \E k, d, i, j : o = <<k, d, i, j>> /\ Holds(k, d, i, j, f)
  <2>1. CASE o \in {<<"dir", d, 0, 0>> : d \in (LiveDirs \ {KernelPD}) \cap {f}}
    BY <2>1 DEF Holds
  <2>2. CASE o \in {<<"kstack", p.dir, 0, 0>> : p \in {q \in processes \cup {new} : q.kstack = f}}
    BY <2>2 DEF Holds
  <2>3. CASE o = <<"phys", 0, 0, 0>> /\ stage \notin {"idle", "use"} /\ phys = f
    BY <2>3 DEF Holds
  <2>4. CASE o = <<"pt_phys", 0, 0, 0>> /\ stage = "link" /\ pt_phys = f
    BY <2>4 DEF Holds
  <2>5. CASE o \in {x \in {"table"} \X LiveDirs \X User \X {0} : mem[x[2]][x[3]] = f}
    <3>1. /\ o = <<o[1], o[2], o[3], o[4]>> /\ o[1] = "table" /\ o[2] \in LiveDirs
          /\ o[3] \in User /\ o[4] = 0 /\ mem[o[2]][o[3]] = f
      BY <2>5
    <3> QED
      BY <3>1 DEF Holds
  <2>6. CASE o \in {x \in {"page"} \X LiveDirs \X User \X Index :
                      Translate(mem, x[2], x[3], x[4]) = f}
    <3>1. /\ o = <<o[1], o[2], o[3], o[4]>> /\ o[1] = "page" /\ o[2] \in LiveDirs
          /\ o[3] \in User /\ o[4] \in Index /\ Translate(mem, o[2], o[3], o[4]) = f
      BY <2>6
    <3> QED
      BY <3>1 DEF Holds
  <2> QED
    BY <1>1, <2>1, <2>2, <2>3, <2>4, <2>5, <2>6 DEF Owners
<1>2. ASSUME NEW k, NEW d, NEW i, NEW j, o = <<k, d, i, j>>, Holds(k, d, i, j, f)
      PROVE  o \in Owners(f)
  <2>1. CASE k = "dir" /\ i = 0 /\ j = 0 /\ d \in LiveDirs \ {KernelPD} /\ d = f
    BY <1>2, <2>1 DEF Owners
  <2>2. CASE k = "kstack" /\ i = 0 /\ j = 0 /\ \E p \in processes \cup {new} : p.dir = d /\ p.kstack = f
    BY <1>2, <2>2 DEF Owners
  <2>3. CASE k = "phys" /\ d = 0 /\ i = 0 /\ j = 0 /\ stage \notin {"idle", "use"} /\ phys = f
    BY <1>2, <2>3 DEF Owners
  <2>4. CASE k = "pt_phys" /\ d = 0 /\ i = 0 /\ j = 0 /\ stage = "link" /\ pt_phys = f
    BY <1>2, <2>4 DEF Owners
  <2>5. CASE k = "table" /\ d \in LiveDirs /\ i \in User /\ j = 0 /\ mem[d][i] = f
    BY <1>2, <2>5 DEF Owners
  <2>6. CASE k = "page" /\ d \in LiveDirs /\ i \in User /\ j \in Index /\ Translate(mem, d, i, j) = f
    BY <1>2, <2>6 DEF Owners
  <2> QED
    BY <1>2, <2>1, <2>2, <2>3, <2>4, <2>5, <2>6 DEF Holds
<1> QED
  BY <1>1, <1>2

LEMMA OwnersAreNext ==
  (\A f, o : o \in Owners(f) <=> \E k, d, i, j : o = <<k, d, i, j>> /\ Holds(k, d, i, j, f))'
BY OwnersAre, PTL

LEMMA OwnersKept ==
  ASSUME NEW f, \A k, d, i, j : Holds(k, d, i, j, f)' <=> Holds(k, d, i, j, f)
  PROVE  Owners(f)' = Owners(f)
<1>1. \A o : o \in Owners(f) <=> \E k, d, i, j : o = <<k, d, i, j>> /\ Holds(k, d, i, j, f)
  BY OwnersAre, Zenon
<1>2. \A o : o \in Owners(f)' <=> \E k, d, i, j : o = <<k, d, i, j>> /\ Holds(k, d, i, j, f)'
  BY OwnersAreNext
<1>3. \A o : o \in Owners(f)' <=> o \in Owners(f)
  BY <1>1, <1>2
<1> QED
  BY <1>3, Zenon

LEMMA OneOwner ==
  ASSUME NEW f, NEW a, NEW b, NEW c, NEW e, HeldBy(a, b, c, e, f)'
  PROVE  Owners(f)' = {<<a, b, c, e>>}
<1> USE DEF HeldBy
<1>1. \A o : o \in Owners(f)' <=> \E k, d, i, j : o = <<k, d, i, j>> /\ Holds(k, d, i, j, f)'
  BY OwnersAreNext
<1>2. \A o : o \in Owners(f)' <=> o = <<a, b, c, e>>
  BY <1>1
<1> QED
  BY <1>2

(* If every other frame is held as before, and g by one or by none, all    *)
(* frames are accounted for.                                               *)
LEMMA Moved ==
  ASSUME Singles, reserved' = reserved, NEW g,
         \A f \in Frames \ reserved : f # g =>
           /\ f \in used' <=> f \in used
           /\ \A k, d, i, j : Holds(k, d, i, j, f)' <=> Holds(k, d, i, j, f),
         \/ g \notin Frames \ reserved
         \/ g \in used' /\ \E a, b, c, e : HeldBy(a, b, c, e, g)'
         \/ g \notin used' /\ \A k, d, i, j : ~Holds(k, d, i, j, g)'
  PROVE  Singles'
<1> SUFFICES ASSUME NEW f \in Frames \ reserved PROVE Single(f)'
  BY DEF Singles
<1>1. CASE f # g
  <2>1. Owners(f)' = Owners(f)
    BY <1>1, OwnersKept
  <2> QED
    BY <1>1, <2>1 DEF Singles, Single
<1>2. CASE f = g /\ g \in used' /\ \E a, b, c, e : HeldBy(a, b, c, e, g)'
  <2>1. \E o : Owners(g)' = {o}
    BY <1>2, OneOwner
  <2> QED
    BY <1>2, <2>1 DEF Single
<1>3. CASE f = g /\ g \notin used' /\ \A k, d, i, j : ~Holds(k, d, i, j, g)'
  <2>1. \A o : o \notin Owners(g)'
    BY <1>3, OwnersAreNext
  <2> QED
    BY <1>3, <2>1 DEF Single
<1> QED
  BY <1>1, <1>2, <1>3

(* A frame that is held is in use and held once; one that is free is not   *)
(* held.                                                                   *)
LEMMA OnlyOwner ==
  ASSUME Singles, NEW f \in Frames \ reserved,
         NEW k, NEW d, NEW i, NEW j, Holds(k, d, i, j, f)
  PROVE  /\ f \in used
         /\ \A a, b, c, e : Holds(a, b, c, e, f) => a = k /\ b = d /\ c = i /\ e = j
<1>1. <<k, d, i, j>> \in Owners(f)
  BY OwnersAre
<1>2. f \in used /\ \E o : Owners(f) = {o}
  BY <1>1 DEF Singles, Single
<1>3. ASSUME NEW a, NEW b, NEW c, NEW e, Holds(a, b, c, e, f)
      PROVE  a = k /\ b = d /\ c = i /\ e = j
  <2>1. <<a, b, c, e>> \in Owners(f)
    BY <1>3, OwnersAre
  <2>2. <<a, b, c, e>> = <<k, d, i, j>>
    BY <1>1, <1>2, <2>1
  <2> QED
    BY <2>2
<1> QED
  BY <1>2, <1>3

LEMMA LayoutFacts ==
  ASSUME Types
  PROVE  /\ 0 \in Frames /\ KernelPD \in Frames /\ FirstTable \in Frames
         /\ 0 \in reserved /\ KernelPD \in reserved /\ FirstTable \in reserved
         /\ KernelPD # 0 /\ FirstTable # 0 /\ KernelPD # FirstTable
         /\ None \notin Frames /\ None \in Int /\ Frames \subseteq Int
         /\ 0 \in Index /\ LastPt \in Index /\ LastPt # 0
         /\ StackPd \in User /\ TestPd \in User /\ User \subseteq Index /\ 0 \notin User
         /\ KernelPD \in LiveDirs /\ Pd \in User /\ Pt \in Index
BY LayoutAssumption DEF Types, Frames, Index, None, LastPt, StackPd, TestPd, User, LiveDirs, Pd, Pt

LEMMA FreshIsDetached ==
  ASSUME Types, Singles, NEW f \in Frames \ used
  PROVE  f \notin reserved /\ Detached(f) /\ \A k, d, i, j : ~Holds(k, d, i, j, f)
<1>1. f \notin reserved
  BY DEF Types
<1>2. \A k, d, i, j : ~Holds(k, d, i, j, f)
  BY <1>1, OnlyOwner
<1> QED
  BY <1>1, <1>2 DEF Detached

(* What a detached frame is not. *)
LEMMA DetachedFacts ==
  ASSUME Types, NEW f \in Frames \ reserved, Detached(f)
  PROVE  /\ f # 0 /\ f # None /\ f # KernelPD /\ f # FirstTable /\ f \notin LiveDirs
         /\ \A d \in LiveDirs, i \in User : mem[d][i] # f
         /\ \A d \in LiveDirs, i \in User, j \in Index : Translate(mem, d, i, j) # f
         /\ \A p \in processes \cup {new} : p.kstack # f
<1>1. f # 0 /\ f # KernelPD /\ f # FirstTable /\ f # None
  BY LayoutFacts
<1>2. \A k, d, i, j : k \notin {"phys", "pt_phys"} => ~Holds(k, d, i, j, f)
  BY DEF Detached
<1>4. f \notin LiveDirs
  <2>1. ~Holds("dir", f, 0, 0, f)
    BY <1>2
  <2> QED
    BY <1>1, <2>1 DEF Holds
<1>5. ASSUME NEW d \in LiveDirs, NEW i \in User PROVE mem[d][i] # f
  <2>1. ~Holds("table", d, i, 0, f)
    BY <1>2
  <2> QED
    BY <2>1 DEF Holds
<1>6. ASSUME NEW d \in LiveDirs, NEW i \in User, NEW j \in Index PROVE Translate(mem, d, i, j) # f
  <2>1. ~Holds("page", d, i, j, f)
    BY <1>2
  <2> QED
    BY <2>1 DEF Holds
<1>7. ASSUME NEW p \in processes \cup {new} PROVE p.kstack # f
  <2>1. ~Holds("kstack", p.dir, 0, 0, f)
    BY <1>2
  <2> QED
    BY <2>1 DEF Holds
<1> QED
  BY <1>1, <1>4, <1>5, <1>6, <1>7

(* A frame that a local holds is detached. *)
LEMMA LocalIsDetached ==
  ASSUME Types, Singles, NEW f \in Frames \ reserved,
         \/ phys = f /\ stage \notin {"idle", "use"}
         \/ pt_phys = f /\ stage = "link"
  PROVE  Detached(f) /\ f \in used
<1>1. PICK k \in {"phys", "pt_phys"} : Holds(k, 0, 0, 0, f)
  BY DEF Holds
<1> QED
  BY <1>1, OnlyOwner DEF Detached

(* A write to a detached frame leaves the live directories as they are. *)
LEMMA LiveKept ==
  ASSUME Types, Trees, NEW f \in Frames \ reserved, Detached(f), NEW row,
         mem' = [mem EXCEPT ![f] = row]
  PROVE  /\ mem'[FirstTable] = mem[FirstTable]
         /\ \A d \in LiveDirs : mem'[d] = mem[d]
         /\ \A d \in LiveDirs, i \in User : \A j : Translate(mem', d, i, j) = Translate(mem, d, i, j)
<1>1. mem \in [Frames -> [Index -> Int]]
  BY DEF Types
<1>2. mem'[FirstTable] = mem[FirstTable]
  BY <1>1, DetachedFacts, LayoutFacts
<1>3. \A d \in LiveDirs : d \in Frames /\ mem'[d] = mem[d]
  BY <1>1, DetachedFacts DEF Trees, Directory
<1>4. ASSUME NEW d \in LiveDirs, NEW i \in User, NEW j
      PROVE  Translate(mem', d, i, j) = Translate(mem, d, i, j)
  <2>1. mem'[d][i] = mem[d][i] /\ mem[d][i] # f
    BY <1>3, DetachedFacts
  <2>2. CASE mem[d][i] = None
    BY <2>1, <2>2 DEF Translate
  <2>3. CASE mem[d][i] # None
    <3>1. mem[d][i] \in Frames
      BY <2>3 DEF Trees, Directory
    <3>2. mem'[mem[d][i]] = mem[mem[d][i]]
      BY <1>1, <2>1, <3>1
    <3> QED
      BY <2>1, <2>3, <3>2 DEF Translate
  <2> QED
    BY <2>2, <2>3
<1> QED
  BY <1>2, <1>3, <1>4

-----------------------------------------------------------------------------
(* Steps that leave tables and slots alone. *)

LEMMA TreesKept ==
  ASSUME Trees, UNCHANGED <<reserved, mem, processes, new>>
  PROVE  /\ Trees' /\ LiveDirs' = LiveDirs
         /\ \A d, i, j : Translate(mem', d, i, j) = Translate(mem, d, i, j)
         /\ \A k, d, i, j, f : k \notin {"phys", "pt_phys"} =>
              (Holds(k, d, i, j, f)' <=> Holds(k, d, i, j, f))
<1>1. LiveDirs' = LiveDirs
  BY DEF LiveDirs, Dirs
<1>2. \A d, i, j : Translate(mem', d, i, j) = Translate(mem, d, i, j)
  BY DEF Translate
<1>3. ASSUME NEW d \in LiveDirs PROVE Directory(d)'
  BY DEF Trees, Directory
<1>4. Trees'
  BY <1>1, <1>2, <1>3 DEF Trees
<1>5. \A k, d, i, j, f : k \notin {"phys", "pt_phys"} =>
        (Holds(k, d, i, j, f)' <=> Holds(k, d, i, j, f))
  BY <1>1, <1>2 DEF Holds
<1> QED
  BY <1>1, <1>2, <1>4, <1>5

(* A tick, or the end of the machine. *)
LEMMA SameStep ==
  ASSUME Tree, UNCHANGED <<reserved, used, mem, processes, op, stage, new, phys, pt_phys>>
  PROVE  Tree'
<1>1. /\ Trees' /\ \A d, i, j : Translate(mem', d, i, j) = Translate(mem, d, i, j)
      /\ \A k, d, i, j, f : k \notin {"phys", "pt_phys"} =>
           (Holds(k, d, i, j, f)' <=> Holds(k, d, i, j, f))
  BY TreesKept DEF Tree
<1>2. \A k, d, i, j, f : Holds(k, d, i, j, f)' <=> Holds(k, d, i, j, f)
  <2> SUFFICES ASSUME NEW k, NEW d, NEW i, NEW j, NEW f
               PROVE  Holds(k, d, i, j, f)' <=> Holds(k, d, i, j, f)
    OBVIOUS
  <2>1. CASE k \in {"phys", "pt_phys"}
    BY <2>1 DEF Holds
  <2> QED
    BY <1>1, <2>1
<1>3. Singles'
  <2>1. None \notin Frames \ reserved
    BY LayoutFacts DEF Tree
  <2> QED
    BY <1>2, <2>1, Moved DEF Tree
<1>4. Types' /\ Commands' /\ Stages'
  BY DEF Tree, Types, Commands, Stages
<1>5. Entered'
  BY <1>1 DEF Tree, Entered, Target, Pd, Pt
<1> QED
  BY <1>1, <1>3, <1>4, <1>5 DEF Tree

(* The next stage begins and no frame changes hands. *)
LEMMA QuietStep ==
  ASSUME Tree, UNCHANGED <<reserved, used, mem, processes, new, phys, pt_phys>>,
         stage \notin {"use", "link"}, stage' \notin {"use", "link"},
         phys = 0 \/ (stage # "idle" /\ stage' # "idle"),
         Stages', Entered', Commands'
  PROVE  Tree'
<1>1. Types /\ Types' /\ 0 \in reserved /\ None \notin Frames
  BY LayoutFacts DEF Tree, Types
<1>2. /\ Trees'
      /\ \A k, d, i, j, f : k \notin {"phys", "pt_phys"} =>
           (Holds(k, d, i, j, f)' <=> Holds(k, d, i, j, f))
  BY TreesKept DEF Tree
<1>3. ASSUME NEW f \in Frames \ reserved, NEW k, NEW d, NEW i, NEW j
      PROVE  Holds(k, d, i, j, f)' <=> Holds(k, d, i, j, f)
  <2>1. CASE k \in {"phys", "pt_phys"}
    BY <1>1, <2>1 DEF Holds
  <2> QED
    BY <1>2, <2>1
<1>4. Singles'
  BY <1>1, <1>3, Moved DEF Tree
<1> QED
  BY <1>1, <1>2, <1>4 DEF Tree

(* A frame is taken from the allocator into phys. *)
LEMMA TakeFrame ==
  ASSUME Tree, NEW f \in Frames \ used, used' = used \cup {f}, phys' = f,
         UNCHANGED <<reserved, mem, processes, new, pt_phys>>,
         phys = 0, stage # "link", stage' \notin {"idle", "use", "link"},
         Stages', Entered', Commands'
  PROVE  Tree'
<1>1. Types /\ Types' /\ 0 \in reserved /\ f \notin reserved
  BY LayoutFacts, FreshIsDetached DEF Tree, Types
<1>2. /\ Trees'
      /\ \A k, d, i, j, g : k \notin {"phys", "pt_phys"} =>
           (Holds(k, d, i, j, g)' <=> Holds(k, d, i, j, g))
  BY TreesKept DEF Tree
<1>3. ASSUME NEW g \in Frames \ reserved, g # f, NEW k, NEW d, NEW i, NEW j
      PROVE  Holds(k, d, i, j, g)' <=> Holds(k, d, i, j, g)
  <2>1. CASE k \in {"phys", "pt_phys"}
    BY <1>1, <1>3, <2>1 DEF Holds
  <2> QED
    BY <1>2, <2>1
<1>4. HeldBy("phys", 0, 0, 0, f)'
  <2>1. ASSUME NEW k, NEW d, NEW i, NEW j
        PROVE  Holds(k, d, i, j, f)' <=> k = "phys" /\ d = 0 /\ i = 0 /\ j = 0
    <3>1. CASE k \in {"phys", "pt_phys"}
      BY <3>1 DEF Holds
    <3>2. CASE k \notin {"phys", "pt_phys"}
      BY <1>2, <3>2, FreshIsDetached DEF Tree
    <3> QED
      BY <3>1, <3>2
  <2> QED
    BY <2>1 DEF HeldBy
<1>5. Singles'
  BY <1>3, <1>4, Moved DEF Tree
<1> QED
  BY <1>1, <1>2, <1>5 DEF Tree

(* A frame is taken from the allocator for a page table. *)
LEMMA TakeTable ==
  ASSUME Tree, NEW f \in Frames \ used, used' = used \cup {f}, pt_phys' = f,
         UNCHANGED <<reserved, mem, processes, new, phys>>,
         stage = "map", stage' = "link", Stages', Entered', Commands'
  PROVE  Tree'
<1>1. Types /\ Types' /\ f \notin reserved /\ phys # f
  <2>1. Types /\ Types' /\ f \notin reserved
    BY FreshIsDetached DEF Tree, Types
  <2>2. phys \in Frames \ reserved
    BY DEF Tree, Types, Stages
  <2>3. phys \in used
    BY <2>2, LocalIsDetached DEF Tree
  <2> QED
    BY <2>1, <2>3
<1>2. /\ Trees'
      /\ \A k, d, i, j, g : k \notin {"phys", "pt_phys"} =>
           (Holds(k, d, i, j, g)' <=> Holds(k, d, i, j, g))
  BY TreesKept DEF Tree
<1>3. ASSUME NEW g \in Frames \ reserved, g # f, NEW k, NEW d, NEW i, NEW j
      PROVE  Holds(k, d, i, j, g)' <=> Holds(k, d, i, j, g)
  <2>1. CASE k \in {"phys", "pt_phys"}
    BY <1>1, <1>3, <2>1 DEF Holds
  <2> QED
    BY <1>2, <2>1
<1>4. HeldBy("pt_phys", 0, 0, 0, f)'
  <2>1. ASSUME NEW k, NEW d, NEW i, NEW j
        PROVE  Holds(k, d, i, j, f)' <=> k = "pt_phys" /\ d = 0 /\ i = 0 /\ j = 0
    <3>1. CASE k \in {"phys", "pt_phys"}
      BY <1>1, <3>1 DEF Holds
    <3>2. CASE k \notin {"phys", "pt_phys"}
      BY <1>2, <3>2, FreshIsDetached DEF Tree
    <3> QED
      BY <3>1, <3>2
  <2> QED
    BY <2>1 DEF HeldBy
<1>5. Singles'
  BY <1>3, <1>4, Moved DEF Tree
<1> QED
  BY <1>1, <1>2, <1>5 DEF Tree

(* The frame in phys is given back. *)
LEMMA FreeStep ==
  ASSUME Tree, NEW f, f = phys, stage = "free", stage' = "idle", used' = used \ {f}, phys' = 0,
         UNCHANGED <<reserved, mem, processes, new, pt_phys>>,
         Stages', Entered', Commands'
  PROVE  Tree'
<1>1. Types /\ Types' /\ f \in Frames \ reserved
  BY LayoutFacts DEF Tree, Types, Stages
<1>2. /\ Trees'
      /\ \A k, d, i, j, g : k \notin {"phys", "pt_phys"} =>
           (Holds(k, d, i, j, g)' <=> Holds(k, d, i, j, g))
  BY TreesKept DEF Tree
<1>3. ASSUME NEW g \in Frames \ reserved, g # f, NEW k, NEW d, NEW i, NEW j
      PROVE  Holds(k, d, i, j, g)' <=> Holds(k, d, i, j, g)
  <2>1. CASE k \in {"phys", "pt_phys"}
    BY <1>1, <1>3, <2>1 DEF Holds
  <2> QED
    BY <1>2, <2>1
<1>4. ASSUME NEW k, NEW d, NEW i, NEW j
      PROVE  ~Holds(k, d, i, j, f)'
  <2>1. CASE k \in {"phys", "pt_phys"}
    BY <1>1, <2>1 DEF Holds
  <2>2. CASE k \notin {"phys", "pt_phys"}
    BY <1>1, <1>2, <2>2, LocalIsDetached DEF Tree, Detached
  <2> QED
    BY <2>1, <2>2
<1>5. Singles'
  BY <1>1, <1>3, <1>4, Moved DEF Tree
<1> QED
  BY <1>1, <1>2, <1>5 DEF Tree

-----------------------------------------------------------------------------
(* The steps that fill the slot. *)

(* The kernel stack moves from the local to the slot. *)
LEMMA KeepStep ==
  ASSUME Tree, NEW f, f = phys, stage = "keep", stage' = "ustack", phys' = 0,
         new' = [dir |-> new.dir, kstack |-> f, ustack |-> new.ustack],
         UNCHANGED <<reserved, used, mem, processes, op, pt_phys>>
  PROVE  Tree'
<1>1. /\ Types /\ Types' /\ f \in Frames \ reserved /\ 0 \in reserved /\ 0 \in Frames
      /\ op = "create" /\ new.kstack = 0 /\ new.dir \notin reserved
  BY LayoutFacts DEF Tree, Types, Commands, Stages, Slots
<1>2. f \in used /\ Detached(f)
  BY <1>1, LocalIsDetached DEF Tree
<1>3. LiveDirs' = LiveDirs /\ \A d, i, j : Translate(mem', d, i, j) = Translate(mem, d, i, j)
  BY DEF LiveDirs, Dirs, Translate
<1>4. Trees'
  <2>1. \A d \in LiveDirs : Directory(d)'
    BY DEF Tree, Trees, Directory
  <2> QED
    BY <1>3, <2>1 DEF Tree, Trees
<1>5. ASSUME NEW g \in Frames \ reserved, g # f, NEW k, NEW d, NEW i, NEW j
      PROVE  Holds(k, d, i, j, g)' <=> Holds(k, d, i, j, g)
  <2>1. (\E p \in processes' \cup {new'} : p.dir = d /\ p.kstack = g)
          <=> (\E p \in processes \cup {new} : p.dir = d /\ p.kstack = g)
    BY <1>1, <1>5
  <2> QED
    BY <1>1, <1>3, <1>5, <2>1 DEF Holds
<1>6. \E a, b, c, e : HeldBy(a, b, c, e, f)'
  <2>1. ASSUME NEW k, NEW d, NEW i, NEW j
        PROVE  Holds(k, d, i, j, f)' <=> k = "kstack" /\ d = new.dir /\ i = 0 /\ j = 0
    <3>1. (\E p \in processes' \cup {new'} : p.dir = d /\ p.kstack = f) <=> d = new.dir
      BY <1>1, <1>2, DetachedFacts
    <3>2. CASE k = "kstack"
      BY <3>1, <3>2 DEF Holds
    <3>3. CASE k \in {"phys", "pt_phys"}
      BY <1>1, <3>3 DEF Holds
    <3>4. CASE k \notin {"kstack", "phys", "pt_phys"}
      <4>1. ~Holds(k, d, i, j, f)
        BY <1>2, <3>4 DEF Detached
      <4> QED
        BY <1>3, <3>4, <4>1 DEF Holds
    <3> QED
      BY <3>2, <3>3, <3>4
  <2>2. PICK b : b = new.dir
    OBVIOUS
  <2>3. HeldBy("kstack", b, 0, 0, f)'
    BY <2>1, <2>2 DEF HeldBy
  <2> QED
    BY <2>3
<1>7. Singles'
  BY <1>1, <1>2, <1>5, <1>6, Moved DEF Tree
<1>8. Commands' /\ Stages'
  BY <1>1 DEF Tree, Commands, Stages
<1>9. Entered'
  BY <1>1, <1>3 DEF Tree, Entered, Target, Pd, Pt
<1> QED
  BY <1>1, <1>4, <1>7, <1>8, <1>9 DEF Tree

(* The new directory is written and moves to the slot. *)
LEMMA FillStep ==
  ASSUME Tree, NEW f, f = phys, stage = "fill", stage' = "kstack", phys' = 0,
         mem' = [mem EXCEPT ![f] = NewDirectory(mem)],
         new' = [dir |-> f, kstack |-> 0, ustack |-> 0],
         UNCHANGED <<reserved, used, processes, op, pt_phys>>
  PROVE  Tree'
<1>1. /\ Types /\ mem \in [Frames -> [Index -> Int]] /\ f \in Frames \ reserved
      /\ op = "create" /\ new = [dir |-> 0, kstack |-> 0, ustack |-> 0]
  BY DEF Tree, Types, Commands, Stages, NoSlot
<1>2. f \in used /\ Detached(f)
  BY <1>1, LocalIsDetached DEF Tree
<1>3. /\ f # 0 /\ f # None /\ f # KernelPD /\ f # FirstTable /\ f \notin LiveDirs
      /\ \A d \in LiveDirs, i \in User : mem[d][i] # f
      /\ \A d \in LiveDirs, i \in User, j \in Index : Translate(mem, d, i, j) # f
      /\ \A p \in processes \cup {new} : p.kstack # f
  BY <1>1, <1>2, DetachedFacts
<1>4. LiveDirs' = LiveDirs \cup {f} /\ LiveDirs = {KernelPD} \cup Dirs
  BY <1>1, <1>3 DEF LiveDirs, Dirs
<1>5. /\ mem'[FirstTable] = mem[FirstTable]
      /\ \A d \in LiveDirs : mem'[d] = mem[d]
      /\ \A d \in LiveDirs, i \in User : \A j : Translate(mem', d, i, j) = Translate(mem, d, i, j)
  BY <1>1, <1>2, LiveKept DEF Tree
<1>6. /\ mem'[f] = NewDirectory(mem) /\ mem'[f] \in [Index -> Int]
      /\ mem'[f][0] = FirstTable /\ \A i \in User : mem'[f][i] = None
  <2>1. NewDirectory(mem) \in [Index -> Int]
    BY <1>1, LayoutFacts DEF NewDirectory, None
  <2>2. mem[KernelPD][0] = FirstTable
    BY <1>1, LayoutFacts DEF Tree, Trees, Directory
  <2>3. NewDirectory(mem)[0] = FirstTable
    BY <1>1, <2>2, LayoutFacts DEF NewDirectory
  <2>4. \A i \in User : i \in Index /\ i # 0 /\ ~(i >= UserEntries)
    BY LayoutAssumption DEF User, Index
  <2>5. \A i \in User : NewDirectory(mem)[i] = None
    BY <2>4 DEF NewDirectory
  <2> QED
    BY <1>1, <2>1, <2>3, <2>5
<1>7. \A i \in User : \A j : Translate(mem', f, i, j) = None
  BY <1>6 DEF Translate
<1>8. Types'
  <2>1. mem' \in [Frames -> [Index -> Int]]
    BY <1>1, <1>6
  <2>2. new' \in Slots /\ 0 \in Frames
    BY <1>1, LayoutFacts DEF Slots
  <2> QED
    BY <1>1, <2>1, <2>2 DEF Types
<1>9. Trees'
  <2>1. ASSUME NEW d \in LiveDirs PROVE Directory(d)'
    BY <1>5 DEF Tree, Trees, Directory
  <2>2. Directory(f)'
    BY <1>1, <1>6 DEF Directory
  <2>3. \A d \in LiveDirs' : Directory(d)'
    BY <1>4, <2>1, <2>2
  <2>4. ASSUME NEW p \in processes
        PROVE  /\ p.dir \notin reserved /\ p.ustack \notin reserved
               /\ Translate(mem', p.dir, StackPd, LastPt) = p.ustack
    <3>1. p.dir \in LiveDirs /\ StackPd \in User
      BY <1>1, LayoutFacts DEF LiveDirs, Dirs
    <3> QED
      BY <1>5, <3>1 DEF Tree, Trees
  <2> QED
    BY <1>5, <2>3, <2>4 DEF Tree, Trees
<1>10. Commands' /\ Stages'
  BY <1>1, LayoutFacts DEF Tree, Commands, Stages
<1>11. Entered'
  <2>1. ASSUME NEW j \in Index PROVE Translate(mem', KernelPD, TestPd, j) = None
    <3>1. Translate(mem, KernelPD, TestPd, j) = None
      BY DEF Tree, Entered
    <3> QED
      BY <1>1, <1>5, <3>1, LayoutFacts
  <2> QED
    BY <1>6, <2>1 DEF Entered
<1>12. ASSUME NEW g \in Frames \ reserved, g # f, NEW k, NEW d, NEW i, NEW j
       PROVE  Holds(k, d, i, j, g)' <=> Holds(k, d, i, j, g)
  <2>1. g # 0 /\ g # None
    BY <1>1, LayoutFacts
  <2>2. CASE k = "dir"
    BY <1>4, <1>12, <2>2 DEF Holds
  <2>3. CASE k = "kstack"
    BY <1>1, <2>1, <2>3 DEF Holds
  <2>4. CASE k \in {"phys", "pt_phys"}
    BY <1>12, <2>1, <2>4 DEF Holds
  <2>5. CASE k = "table"
    BY <1>4, <1>5, <1>6, <2>1, <2>5 DEF Holds
  <2>6. CASE k = "page"
    BY <1>4, <1>5, <1>7, <2>1, <2>6 DEF Holds
  <2> QED
    BY <2>2, <2>3, <2>4, <2>5, <2>6 DEF Holds
<1>13. HeldBy("dir", f, 0, 0, f)'
  <2>1. ASSUME NEW k, NEW d, NEW i, NEW j
        PROVE  Holds(k, d, i, j, f)' <=> k = "dir" /\ d = f /\ i = 0 /\ j = 0
    <3>1. ~(\E p \in processes' \cup {new'} : p.dir = d /\ p.kstack = f)
      BY <1>1, <1>3
    <3>2. ~(d \in LiveDirs' /\ i \in User /\ mem'[d][i] = f)
      BY <1>3, <1>4, <1>5, <1>6
    <3>3. ~(d \in LiveDirs' /\ i \in User /\ j \in Index /\ Translate(mem', d, i, j) = f)
      <4>1. CASE d = f
        BY <1>3, <1>7, <4>1
      <4>2. CASE d \in LiveDirs
        BY <1>3, <1>5, <4>2
      <4> QED
        BY <1>4, <4>1, <4>2
    <3> QED
      BY <1>3, <1>4, <3>1, <3>2, <3>3 DEF Holds
  <2> QED
    BY <2>1 DEF HeldBy
<1>14. Singles'
  BY <1>2, <1>12, <1>13, Moved DEF Tree
<1> QED
  BY <1>8, <1>9, <1>10, <1>11, <1>14 DEF Tree

(* The slot becomes a process. *)
LEMMA ContextStep ==
  ASSUME Tree, stage = "context", stage' = "idle", op' = "none",
         processes' = processes \cup {new}, new' = NoSlot,
         UNCHANGED <<reserved, used, mem, phys, pt_phys>>
  PROVE  Tree'
<1>1. /\ Types /\ 0 \in reserved /\ 0 \in Frames /\ new.dir \notin reserved /\ phys = 0
      /\ new \in Slots /\ op = "create"
      /\ new.ustack \notin reserved /\ Translate(mem, new.dir, StackPd, LastPt) = new.ustack
      /\ \A j \in Index : Translate(mem, KernelPD, TestPd, j) = None
  BY LayoutFacts DEF Tree, Types, Commands, Stages, Entered
<1>2. LiveDirs' = LiveDirs /\ \A d, i, j : Translate(mem', d, i, j) = Translate(mem, d, i, j)
  BY <1>1 DEF LiveDirs, Dirs, Translate, NoSlot
<1>3. Types'
  <2>1. new' \in Slots
    BY <1>1 DEF NoSlot, Slots
  <2> QED
    BY <1>1, <2>1 DEF Types
<1>4. Trees'
  <2>1. \A d \in LiveDirs : Directory(d)'
    BY DEF Tree, Trees, Directory
  <2>2. ASSUME NEW p \in processes'
        PROVE  /\ p.dir \notin reserved /\ p.ustack \notin reserved
               /\ Translate(mem, p.dir, StackPd, LastPt) = p.ustack
    BY <1>1 DEF Tree, Trees
  <2> QED
    BY <1>2, <2>1, <2>2 DEF Tree, Trees
<1>5. Commands' /\ Stages'
  BY <1>1 DEF Commands, Stages, NoSlot
<1>6. Entered'
  BY <1>1, <1>2 DEF Entered
<1>7. ASSUME NEW g \in Frames \ reserved, NEW k, NEW d, NEW i, NEW j
      PROVE  Holds(k, d, i, j, g)' <=> Holds(k, d, i, j, g)
  <2>1. (\E p \in processes' \cup {new'} : p.dir = d /\ p.kstack = g)
          <=> (\E p \in processes \cup {new} : p.dir = d /\ p.kstack = g)
    BY <1>1 DEF NoSlot
  <2> QED
    BY <1>1, <1>2, <2>1 DEF Holds
<1>8. Singles'
  <2>1. None \notin Frames
    BY <1>1, LayoutFacts
  <2> QED
    BY <1>7, <2>1, Moved DEF Tree
<1> QED
  BY <1>3, <1>4, <1>5, <1>6, <1>8 DEF Tree

-----------------------------------------------------------------------------
(* The steps of vmm_map_page. *)

LEMMA TargetIsLive ==
  ASSUME Tree, stage \notin {"dir", "fill"}
  PROVE  Target \in LiveDirs
BY LayoutFacts DEF Tree, Stages, Target, LiveDirs

(* The frame in entry i of directory d is a table, of d only, and no       *)
(* directory.                                                              *)
LEMMA TableIsPrivate ==
  ASSUME Tree, NEW d \in LiveDirs, NEW i \in User, NEW s, s = mem[d][i], s # None
  PROVE  /\ s \in Frames \ reserved /\ s # FirstTable /\ s \notin LiveDirs
         /\ \A e \in LiveDirs, k \in User : mem[e][k] = s => e = d /\ k = i
<1>1. s \in Frames \ reserved /\ s # FirstTable /\ s # KernelPD
  BY LayoutFacts DEF Tree, Trees, Directory
<1>2. Holds("table", d, i, 0, s)
  BY DEF Holds
<1>3. \A a, b, c, e : Holds(a, b, c, e, s) => a = "table" /\ b = d /\ c = i /\ e = 0
  BY <1>1, <1>2, OnlyOwner DEF Tree
<1>4. ~Holds("dir", s, 0, 0, s)
  BY <1>3
<1>5. s \notin LiveDirs
  BY <1>1, <1>4 DEF Holds
<1>6. ASSUME NEW e \in LiveDirs, NEW k \in User, mem[e][k] = s PROVE e = d /\ k = i
  <2>1. Holds("table", e, k, 0, s)
    BY <1>6 DEF Holds
  <2> QED
    BY <1>3, <2>1
<1> QED
  BY <1>1, <1>5, <1>6

(* Of all that the live directories map, only entry j of the table at      *)
(* entry i of d changes, to v.                                             *)
EntryIs(d, i, j, v) ==
  /\ mem' \in [Frames -> [Index -> Int]] /\ mem'[FirstTable] = mem[FirstTable]
  /\ \A e \in LiveDirs : mem'[e] = mem[e]
  /\ Translate(mem', d, i, j) = v
  /\ \A e \in LiveDirs, k \in User, l \in Index :
       ~(e = d /\ k = i /\ l = j) => Translate(mem', e, k, l) = Translate(mem, e, k, l)

LEMMA EntryWritten ==
  ASSUME Tree, NEW d \in LiveDirs, NEW i \in User, NEW s, s = mem[d][i], s # None,
         NEW j \in Index, NEW v \in Int, mem' = [mem EXCEPT ![s][j] = v]
  PROVE  EntryIs(d, i, j, v)
<1>1. Types /\ mem \in [Frames -> [Index -> Int]] /\ FirstTable \in Frames
  BY LayoutFacts DEF Tree, Types
<1>2. /\ s \in Frames /\ s # FirstTable /\ s \notin LiveDirs
      /\ \A e \in LiveDirs, k \in User : mem[e][k] = s => e = d /\ k = i
  BY TableIsPrivate
<1>3. /\ mem' \in [Frames -> [Index -> Int]] /\ mem'[s] = [mem[s] EXCEPT ![j] = v]
      /\ \A f \in Frames : f # s => mem'[f] = mem[f]
  BY <1>1, <1>2
<1>4. \A e \in LiveDirs : e \in Frames /\ mem'[e] = mem[e]
  BY <1>2, <1>3 DEF Tree, Trees, Directory
<1>5. ASSUME NEW e \in LiveDirs, NEW k \in User, NEW l \in Index
      PROVE  Translate(mem', e, k, l)
               = IF e = d /\ k = i /\ l = j THEN v ELSE Translate(mem, e, k, l)
  <2>1. mem'[e][k] = mem[e][k]
    BY <1>4
  <2>2. CASE mem[e][k] = None
    BY <2>1, <2>2 DEF Translate
  <2>3. CASE mem[e][k] = s
    <3>1. e = d /\ k = i
      BY <1>2, <2>3
    <3>2. mem'[s][l] = IF l = j THEN v ELSE mem[s][l]
      BY <1>1, <1>2, <1>3
    <3>3. Translate(mem', e, k, l) = mem'[s][l] /\ Translate(mem, e, k, l) = mem[s][l]
      BY <2>1, <2>3 DEF Translate
    <3> QED
      BY <3>1, <3>2, <3>3
  <2>4. CASE mem[e][k] # None /\ mem[e][k] # s
    <3>1. PICK t : t = mem[e][k]
      OBVIOUS
    <3>2. t \in Frames /\ mem'[t] = mem[t]
      BY <1>3, <2>4, <3>1 DEF Tree, Trees, Directory
    <3>3. Translate(mem', e, k, l) = mem'[t][l] /\ Translate(mem, e, k, l) = mem[t][l]
      BY <2>1, <2>4, <3>1 DEF Translate
    <3> QED
      BY <2>4, <3>2, <3>3
  <2> QED
    BY <2>2, <2>3, <2>4
<1>6. Translate(mem', d, i, j) = v
  BY <1>5
<1>7. ASSUME NEW e \in LiveDirs, NEW k \in User, NEW l \in Index, ~(e = d /\ k = i /\ l = j)
      PROVE  Translate(mem', e, k, l) = Translate(mem, e, k, l)
  <2>1. Translate(mem', e, k, l)
          = IF e = d /\ k = i /\ l = j THEN v ELSE Translate(mem, e, k, l)
    BY <1>5
  <2> QED
    BY <1>7, <2>1
<1>8. mem' \in [Frames -> [Index -> Int]] /\ mem'[FirstTable] = mem[FirstTable]
  BY <1>1, <1>2, <1>3
<1>9. \A e \in LiveDirs : mem'[e] = mem[e]
  BY <1>4
<1> QED
  BY <1>6, <1>7, <1>8, <1>9, Zenon DEF EntryIs

(* Directories keep their tables while an entry is written. *)
LEMMA EntryKeepsTrees ==
  ASSUME Tree, NEW d \in LiveDirs, NEW i \in User, NEW j \in Index, NEW v, EntryIs(d, i, j, v),
         Translate(mem, d, i, j) = None \/ d = KernelPD,
         UNCHANGED <<reserved, processes>>, LiveDirs' = LiveDirs
  PROVE  Trees'
<1>1. /\ mem'[FirstTable] = mem[FirstTable]
      /\ \A e \in LiveDirs : mem'[e] = mem[e]
      /\ \A e \in LiveDirs, k \in User, l \in Index :
           ~(e = d /\ k = i /\ l = j) => Translate(mem', e, k, l) = Translate(mem, e, k, l)
  BY DEF EntryIs
<1>2. /\ Types /\ StackPd \in User /\ LastPt \in Index /\ None \notin Frames
      /\ KernelPD \in reserved
  BY LayoutFacts DEF Tree
<1>3. ASSUME NEW e \in LiveDirs PROVE Directory(e)'
  BY <1>1 DEF Tree, Trees, Directory
<1>4. ASSUME NEW p \in processes PROVE Translate(mem', p.dir, StackPd, LastPt) = p.ustack
  <2>1. /\ p.dir \in LiveDirs /\ p.ustack # None
        /\ Translate(mem, p.dir, StackPd, LastPt) = p.ustack
    BY <1>2 DEF Tree, Trees, Types, Slots, LiveDirs, Dirs
  <2>3. ~(p.dir = d /\ StackPd = i /\ LastPt = j) \/ Translate(mem, d, i, j) = p.ustack
    BY <2>1
  <2>4. p.dir # KernelPD
    BY <1>2 DEF Tree, Trees
  <2> QED
    BY <1>1, <1>2, <2>1, <2>3, <2>4
<1> QED
  BY <1>1, <1>3, <1>4 DEF Tree, Trees

(* The entry is set: the frame moves from the local to the table. *)
LEMMA EntryStep ==
  ASSUME Tree, NEW d, NEW i, NEW j, NEW v, stage = "entry",
         d = Target, i = Pd, j = Pt, v = phys, EntryIs(d, i, j, v),
         \/ /\ op = "create" /\ stage' = "code" /\ phys' = 0
            /\ new' = [dir |-> new.dir, kstack |-> new.kstack, ustack |-> v]
         \/ op # "create" /\ stage' = "use" /\ UNCHANGED <<new, phys>>,
         UNCHANGED <<reserved, used, processes, op, pt_phys>>
  PROVE  Tree'
<1>1. /\ Types /\ v \in Frames \ reserved /\ v \in Int /\ v # 0 /\ v # None
      /\ op \in {"create", "alloc", "usermode"}
      /\ Translate(mem, d, i, j) = None
  BY LayoutFacts DEF Tree, Types, Commands, Stages, Entered
<1>2. /\ d \in LiveDirs /\ i \in User /\ j \in Index /\ 0 \in reserved /\ 0 \in Frames
      /\ KernelPD \in LiveDirs /\ KernelPD \in reserved /\ TestPd \in User /\ None \notin Frames
  BY <1>1, TargetIsLive, LayoutFacts
<1>4. /\ mem' \in [Frames -> [Index -> Int]]
      /\ \A e \in LiveDirs : mem'[e] = mem[e]
      /\ Translate(mem', d, i, j) = v
      /\ \A e \in LiveDirs, k \in User, l \in Index :
           ~(e = d /\ k = i /\ l = j) => Translate(mem', e, k, l) = Translate(mem, e, k, l)
  BY DEF EntryIs
<1>5. v \in used /\ Detached(v)
  BY <1>1, LocalIsDetached DEF Tree
<1>6. LiveDirs' = LiveDirs /\ new' \in Slots /\ new'.dir = new.dir /\ new'.kstack = new.kstack
  BY <1>1 DEF LiveDirs, Dirs, Types, Slots
<1>7. Types'
  BY <1>1, <1>2, <1>4, <1>6 DEF Types
<1>8. Trees'
  BY <1>1, <1>2, <1>6, EntryKeepsTrees
<1>9. Commands' /\ Stages'
  BY <1>1, <1>2, <1>6 DEF Tree, Commands, Stages, NoSlot
<1>10. Entered'
  <2>1. CASE op = "create"
    <3>1. d = new.dir /\ i = StackPd /\ j = LastPt /\ d # KernelPD
      BY <1>2, <2>1 DEF Target, Pd, Pt, Tree, Stages
    <3>2. \A l \in Index : Translate(mem', KernelPD, TestPd, l) = None
      BY <1>2, <1>4, <3>1 DEF Tree, Entered
    <3>3. Translate(mem', new.dir, StackPd, LastPt) = v
      BY <1>2, <1>4, <3>1
    <3> QED
      BY <1>1, <2>1, <3>2, <3>3 DEF Entered
  <2>2. CASE op # "create"
    <3>1. d = KernelPD /\ i = TestPd /\ j = Pt' /\ stage' = "use" /\ phys' = v
      BY <2>2 DEF Target, Pd, Pt
    <3>2. \A l \in Index : l = j \/ Translate(mem', KernelPD, TestPd, l) = None
      BY <1>2, <1>4, <3>1 DEF Tree, Entered
    <3>3. mem'[KernelPD][TestPd] # None
      BY <1>2, <1>4, <3>1 DEF Tree, Entered
    <3>4.  Translate(mem', KernelPD, TestPd, Pt') = v
      BY <1>1, <1>2, <1>4, <3>1
    <3> QED
      BY <2>2, <3>1, <3>2, <3>3, <3>4 DEF Entered
  <2> QED
    BY <2>1, <2>2
<1>11. ASSUME NEW g \in Frames \ reserved, g # v, NEW k, NEW a, NEW b, NEW c
       PROVE  Holds(k, a, b, c, g)' <=> Holds(k, a, b, c, g)
  <2>1. g # 0 /\ g # None
    BY <1>2
  <2>2. CASE k = "dir"
    BY <1>6, <2>2 DEF Holds
  <2>3. CASE k = "kstack"
    BY <1>6, <2>3 DEF Holds
  <2>4. CASE k \in {"phys", "pt_phys"}
    BY <1>11, <2>1, <2>4 DEF Holds
  <2>5. CASE k = "table"
    BY <1>4, <1>6, <2>5 DEF Holds
  <2>6. CASE k = "page"
    BY <1>1, <1>4, <1>6, <1>11, <2>1, <2>6 DEF Holds
  <2> QED
    BY <2>2, <2>3, <2>4, <2>5, <2>6 DEF Holds
<1>12. HeldBy("page", d, i, j, v)'
  <2>1. ASSUME NEW k, NEW a, NEW b, NEW c
        PROVE  Holds(k, a, b, c, v)' <=> k = "page" /\ a = d /\ b = i /\ c = j
    <3>1. CASE k = "dir"
      BY <1>1, <1>5, <1>6, <3>1, DetachedFacts DEF Holds
    <3>2. CASE k = "kstack"
      BY <1>1, <1>5, <1>6, <3>2, DetachedFacts DEF Holds
    <3>3. CASE k \in {"phys", "pt_phys"}
      BY <1>1, <3>3 DEF Holds
    <3>4. CASE k = "table"
      BY <1>1, <1>4, <1>5, <1>6, <3>4, DetachedFacts DEF Holds
    <3>5. CASE k = "page"
      <4>1. \A e \in LiveDirs, y \in User, l \in Index : Translate(mem, e, y, l) # v
        BY <1>1, <1>5, DetachedFacts
      <4> QED
        BY <1>2, <1>4, <1>6, <3>5, <4>1 DEF Holds
    <3> QED
      BY <3>1, <3>2, <3>3, <3>4, <3>5 DEF Holds
  <2> QED
    BY <2>1 DEF HeldBy
<1>13. Singles'
  BY <1>5, <1>11, <1>12, Moved DEF Tree
<1> QED
  BY <1>7, <1>8, <1>9, <1>10, <1>13 DEF Tree

(* The page is unmapped: the frame moves from the table to the local. *)
LEMMA UnmapStep ==
  ASSUME Tree, NEW d, NEW i, NEW j, NEW v, stage = "use", stage' = "free",
         d = KernelPD, i = TestPd, j = Pt, v = phys, EntryIs(d, i, j, None),
         UNCHANGED <<reserved, used, processes, op, new, phys, pt_phys>>
  PROVE  Tree'
<1>1. /\ Types /\ v \in Frames \ reserved /\ v # 0 /\ v # None
      /\ op \in {"alloc", "usermode"}
      /\ Translate(mem, d, i, j) = v
  BY LayoutFacts DEF Tree, Types, Commands, Stages, Entered
<1>2. /\ d \in LiveDirs /\ i \in User /\ j \in Index /\ None \notin Frames /\ None \in Int
  BY <1>1, LayoutFacts
<1>4. /\ mem' \in [Frames -> [Index -> Int]]
      /\ \A e \in LiveDirs : mem'[e] = mem[e]
      /\ Translate(mem', d, i, j) = None
      /\ \A e \in LiveDirs, k \in User, l \in Index :
           ~(e = d /\ k = i /\ l = j) => Translate(mem', e, k, l) = Translate(mem, e, k, l)
  BY DEF EntryIs
<1>5. v \in used /\ \A a, b, c, e : Holds(a, b, c, e, v) => a = "page" /\ b = d /\ c = i /\ e = j
  <2>1. Holds("page", d, i, j, v)
    BY <1>1, <1>2 DEF Holds
  <2> QED
    BY <1>1, <2>1, OnlyOwner DEF Tree
<1>6. LiveDirs' = LiveDirs
  BY DEF LiveDirs, Dirs
<1>7. Types' /\ Trees'
  <2>1. Trees'
    BY <1>2, <1>6, EntryKeepsTrees
  <2> QED
    BY <1>1, <1>4, <2>1 DEF Types
<1>8. Commands' /\ Stages'
  BY <1>1 DEF Tree, Commands, Stages
<1>9. Entered'
  <2>1. \A l \in Index : Translate(mem', KernelPD, TestPd, l) = None
    BY <1>2, <1>4 DEF Tree, Entered
  <2> QED
    BY <1>1, <2>1 DEF Entered
<1>10. ASSUME NEW g \in Frames \ reserved, g # v, NEW k, NEW a, NEW b, NEW c
       PROVE  Holds(k, a, b, c, g)' <=> Holds(k, a, b, c, g)
  <2>1. CASE k = "page"
    BY <1>1, <1>2, <1>4, <1>6, <1>10, <2>1 DEF Holds
  <2>2. CASE k # "page"
    BY <1>4, <1>6, <1>10, <2>2 DEF Holds
  <2> QED
    BY <2>1, <2>2
<1>11. HeldBy("phys", 0, 0, 0, v)'
  <2>1. ASSUME NEW k, NEW a, NEW b, NEW c
        PROVE  Holds(k, a, b, c, v)' <=> k = "phys" /\ a = 0 /\ b = 0 /\ c = 0
    <3>1. CASE k = "page"
      <4>1. Translate(mem, a, b, c) = v /\ a \in LiveDirs /\ b \in User /\ c \in Index
              => a = d /\ b = i /\ c = j
        <5>1. Holds("page", a, b, c, v) => a = d /\ b = i /\ c = j
          BY <1>5
        <5> QED
          BY <5>1 DEF Holds
      <4> QED
        BY <1>1, <1>2, <1>4, <1>6, <3>1, <4>1 DEF Holds
    <3>2. CASE k \in {"phys", "pt_phys"}
      BY <3>2 DEF Holds
    <3>3. CASE k \notin {"page", "phys", "pt_phys"}
      <4>1. ~Holds(k, a, b, c, v)
        BY <1>5, <3>3
      <4> QED
        BY <1>4, <1>6, <3>3, <4>1 DEF Holds
    <3> QED
      BY <3>1, <3>2, <3>3
  <2> QED
    BY <2>1 DEF HeldBy
<1>12. Singles'
  BY <1>5, <1>10, <1>11, Moved DEF Tree
<1> QED
  BY <1>7, <1>8, <1>9, <1>12 DEF Tree

(* A cleared table is entered at entry i of d: the live directories map    *)
(* what they mapped.                                                       *)
TableIs(d, i, t) ==
  /\ mem' \in [Frames -> [Index -> Int]] /\ mem'[FirstTable] = mem[FirstTable]
  /\ \A e \in LiveDirs : mem'[e][0] = mem[e][0]
  /\ mem'[d][i] = t
  /\ \A e \in LiveDirs, k \in User : ~(e = d /\ k = i) => mem'[e][k] = mem[e][k]
  /\ \A e \in LiveDirs, k \in User, l \in Index : Translate(mem', e, k, l) = Translate(mem, e, k, l)

LEMMA TableWritten ==
  ASSUME Tree, NEW d \in LiveDirs, NEW i \in User, mem[d][i] = None,
         NEW t \in Frames \ reserved, Detached(t),
         mem' = [mem EXCEPT ![t] = Blank, ![d][i] = t]
  PROVE  TableIs(d, i, t)
<1>1. Types /\ mem \in [Frames -> [Index -> Int]]
  BY DEF Tree, Types
<1>2. /\ d \in Frames /\ i \in Index /\ 0 \in Index /\ i # 0 /\ None \notin Frames /\ None \in Int
      /\ FirstTable \in Frames /\ d # FirstTable /\ User \subseteq Index
  BY <1>1, LayoutFacts DEF Tree, Trees, Directory
<1>3. /\ t # d /\ t # FirstTable /\ t \notin LiveDirs /\ t # None
      /\ \A e \in LiveDirs, k \in User : mem[e][k] # t
  BY <1>1, DetachedFacts
<1>4. Blank \in [Index -> Int] /\ t \in Int /\ \A l \in Index : Blank[l] = None
  BY <1>1, <1>2, LayoutFacts DEF Blank
<1>5. /\ mem' \in [Frames -> [Index -> Int]] /\ mem'[t] = Blank
      /\ mem'[d] = [mem[d] EXCEPT ![i] = t]
      /\ \A f \in Frames : f # t /\ f # d => mem'[f] = mem[f]
  BY <1>1, <1>2, <1>3, <1>4
<1>6. mem'[FirstTable] = mem[FirstTable]
  BY <1>2, <1>3, <1>5
<1>7. mem'[d][i] = t /\ \A l \in Index \ {i} : mem'[d][l] = mem[d][l]
  BY <1>1, <1>2, <1>5
<1>8. ASSUME NEW e \in LiveDirs, NEW k \in Index, ~(e = d /\ k = i)
      PROVE  mem'[e][k] = mem[e][k]
  <2>1. e \in Frames /\ e # t
    BY <1>3 DEF Tree, Trees, Directory
  <2> QED
    BY <1>5, <1>7, <1>8, <2>1
<1>9. \A e \in LiveDirs : mem'[e][0] = mem[e][0]
  BY <1>2, <1>8
<1>10. ASSUME NEW e \in LiveDirs, NEW k \in User, NEW l \in Index
       PROVE  Translate(mem', e, k, l) = Translate(mem, e, k, l)
  <2>1. CASE e = d /\ k = i
    <3>1. Translate(mem', e, k, l) = None
      BY <1>3, <1>4, <1>5, <1>7, <2>1 DEF Translate
    <3> QED
      BY <2>1, <3>1 DEF Translate
  <2>2. CASE ~(e = d /\ k = i)
    <3>1. mem'[e][k] = mem[e][k] /\ mem[e][k] # t
      BY <1>2, <1>3, <1>8, <2>2
    <3>2. CASE mem[e][k] = None
      BY <3>1, <3>2 DEF Translate
    <3>3. CASE mem[e][k] # None
      <4>1. PICK s : s = mem[e][k]
        OBVIOUS
      <4>2. s \in Frames /\ s # t /\ s # d
        <5>1. s \notin LiveDirs /\ s \in Frames
          BY <3>3, <4>1, TableIsPrivate
        <5> QED
          BY <3>1, <4>1, <5>1
      <4>3. mem'[s] = mem[s]
        BY <1>5, <4>2
      <4> QED
        BY <3>1, <3>3, <4>1, <4>3 DEF Translate
    <3> QED
      BY <3>2, <3>3
  <2> QED
    BY <2>1, <2>2
<1>11. \A e \in LiveDirs, k \in User : ~(e = d /\ k = i) => mem'[e][k] = mem[e][k]
  BY <1>2, <1>8
<1>12. mem' \in [Frames -> [Index -> Int]] /\ mem'[d][i] = t
  BY <1>5, <1>7
<1> QED
  BY <1>6, <1>9, <1>10, <1>11, <1>12, Zenon DEF TableIs

(* The table is linked: its frame moves from the local to the directory.   *)
LEMMA LinkStep ==
  ASSUME Tree, NEW d, NEW i, NEW t, stage = "link", stage' = "entry",
         d = Target, i = Pd, t = pt_phys, TableIs(d, i, t), pt_phys' = 0,
         UNCHANGED <<reserved, used, processes, op, new, phys>>
  PROVE  Tree'
<1>1. /\ Types /\ t \in Frames \ reserved /\ t # 0 /\ t # None
      /\ op \in {"create", "alloc", "usermode"} /\ mem[d][i] = None
  BY LayoutFacts DEF Tree, Types, Commands, Stages, Entered
<1>2. /\ d \in LiveDirs /\ i \in User /\ User \subseteq Index /\ 0 \in reserved /\ 0 \in Frames
      /\ KernelPD \in LiveDirs /\ TestPd \in User /\ None \notin Frames
      /\ StackPd \in User /\ LastPt \in Index /\ Pt \in Index
  BY <1>1, TargetIsLive, LayoutFacts
<1>3. /\ mem' \in [Frames -> [Index -> Int]] /\ mem'[FirstTable] = mem[FirstTable]
      /\ \A e \in LiveDirs : mem'[e][0] = mem[e][0]
      /\ mem'[d][i] = t
      /\ \A e \in LiveDirs, k \in User : ~(e = d /\ k = i) => mem'[e][k] = mem[e][k]
      /\ \A e \in LiveDirs, k \in User, l \in Index :
           Translate(mem', e, k, l) = Translate(mem, e, k, l)
  BY DEF TableIs
<1>4. t \in used /\ Detached(t)
  BY <1>1, LocalIsDetached DEF Tree
<1>5. /\ t \notin LiveDirs
      /\ \A e \in LiveDirs, k \in User : mem[e][k] # t
      /\ \A e \in LiveDirs, k \in User, l \in Index : Translate(mem, e, k, l) # t
      /\ \A p \in processes \cup {new} : p.kstack # t
  BY <1>1, <1>4, DetachedFacts
<1>6. phys \in Frames \ reserved /\ phys # t
  <2>1. phys \in Frames \ reserved
    BY DEF Tree, Types, Stages
  <2>2. Holds("phys", 0, 0, 0, phys) /\ Holds("pt_phys", 0, 0, 0, t)
    BY DEF Holds
  <2> QED
    BY <1>1, <2>1, <2>2, OnlyOwner DEF Tree
<1>7. LiveDirs' = LiveDirs
  BY DEF LiveDirs, Dirs
<1>8. Types'
  BY <1>1, <1>2, <1>3 DEF Types
<1>9. Trees'
  <2>1. ASSUME NEW e \in LiveDirs PROVE Directory(e)'
    <3>1. \A k \in User : mem'[e][k] = mem[e][k] \/ mem'[e][k] = t
      BY <1>3
    <3> QED
      BY <1>1, <1>3, <3>1 DEF Tree, Trees, Directory
  <2>2. ASSUME NEW p \in processes PROVE Translate(mem', p.dir, StackPd, LastPt) = p.ustack
    <3>1. p.dir \in LiveDirs
      BY DEF LiveDirs, Dirs
    <3> QED
      BY <1>2, <1>3, <3>1 DEF Tree, Trees
  <2> QED
    BY <1>3, <1>7, <2>1, <2>2 DEF Tree, Trees
<1>10. Commands' /\ Stages'
  BY <1>1, <1>6 DEF Tree, Commands, Stages
<1>11. Entered'
  <2>1. Translate(mem, d, i, Pt) = None
    BY <1>1 DEF Translate
  <2>2. Translate(mem', d, i, Pt) = None
    BY <1>2, <1>3, <2>1
  <2>3. Target' = d /\ Pd' = i /\ Pt' = Pt
    BY DEF Target, Pd, Pt
  <2>4. mem'[Target'][Pd'] # None /\ Translate(mem', Target', Pd', Pt') = None
    BY <1>1, <1>3, <2>2, <2>3
  <2>5. \A l \in Index : Translate(mem', KernelPD, TestPd, l) = None
    BY <1>2, <1>3 DEF Tree, Entered
  <2> QED
    BY <1>1, <2>4, <2>5 DEF Entered
<1>12. ASSUME NEW g \in Frames \ reserved, g # t, NEW k, NEW a, NEW b, NEW c
       PROVE  Holds(k, a, b, c, g)' <=> Holds(k, a, b, c, g)
  <2>1. g # 0 /\ g # None
    BY <1>2
  <2>2. CASE k = "dir"
    BY <1>7, <2>2 DEF Holds
  <2>3. CASE k \in {"kstack", "phys", "pt_phys"}
    BY <1>12, <2>1, <2>3 DEF Holds
  <2>4. CASE k = "table"
    BY <1>1, <1>3, <1>7, <1>12, <2>1, <2>4 DEF Holds
  <2>5. CASE k = "page"
    BY <1>3, <1>7, <2>5 DEF Holds
  <2> QED
    BY <2>2, <2>3, <2>4, <2>5 DEF Holds
<1>13. HeldBy("table", d, i, 0, t)'
  <2>1. ASSUME NEW k, NEW a, NEW b, NEW c
        PROVE  Holds(k, a, b, c, t)' <=> k = "table" /\ a = d /\ b = i /\ c = 0
    <3>1. CASE k \in {"dir", "kstack"}
      BY <1>5, <1>7, <3>1 DEF Holds
    <3>2. CASE k \in {"phys", "pt_phys"}
      BY <1>6, <3>2 DEF Holds
    <3>3. CASE k = "table"
      BY <1>2, <1>3, <1>5, <1>7, <3>3 DEF Holds
    <3>4. CASE k = "page"
      BY <1>3, <1>5, <1>7, <3>4 DEF Holds
    <3> QED
      BY <3>1, <3>2, <3>3, <3>4 DEF Holds
  <2> QED
    BY <2>1 DEF HeldBy
<1>14. Singles'
  BY <1>4, <1>12, <1>13, Moved DEF Tree
<1> QED
  BY <1>8, <1>9, <1>10, <1>11, <1>14 DEF Tree

-----------------------------------------------------------------------------
LEMMA InitTree == Init => Tree
<1> SUFFICES ASSUME Init PROVE Tree
  OBVIOUS
<1>1. /\ reserved \in Maps /\ used = reserved /\ processes = {} /\ stage = "idle" /\ op = "none"
      /\ new = [dir |-> 0, kstack |-> 0, ustack |-> 0] /\ phys = 0 /\ pt_phys = 0
      /\ mem = vmm_init
  BY DEF Init, NoSlot
<1>2. Blank \in [Index -> Int] /\ \A j \in Index : j \in Int
  BY LayoutAssumption DEF Blank, None, Index
<1>3. FirstTable \in Int /\ 0 \in Frames /\ 0 \in Index /\ reserved \subseteq Frames
  BY <1>1, LayoutAssumption DEF Frames, Index
<1>4. Types
  <2>1. mem \in [Frames -> [Index -> Int]]
    <3>1. [Blank EXCEPT ![0] = FirstTable] \in [Index -> Int] /\ [j \in Index |-> j] \in [Index -> Int]
      BY <1>2, <1>3
    <3> QED
      BY <1>1, <1>2, <3>1 DEF vmm_init
  <2>2. new \in Slots
    BY <1>1, <1>3 DEF Slots
  <2> QED
    BY <1>1, <1>3, <2>1, <2>2 DEF Types
<1>5. /\ KernelPD \in Frames /\ FirstTable \in Frames /\ KernelPD # FirstTable
      /\ 0 \in reserved /\ None \notin Frames /\ User \subseteq Index /\ 0 \notin User
      /\ TestPd \in User
  BY <1>4, LayoutFacts
<1>6. LiveDirs = {KernelPD}
  BY <1>1 DEF LiveDirs, Dirs
<1>7. mem[KernelPD] = [Blank EXCEPT ![0] = FirstTable] /\ mem[FirstTable] = [j \in Index |-> j]
  BY <1>1, <1>5 DEF vmm_init
<1>8. mem[KernelPD][0] = FirstTable /\ \A i \in User : mem[KernelPD][i] = None
  <2>1. \A i \in User : i \in Index /\ i # 0 /\ Blank[i] = None
    BY <1>5 DEF Blank
  <2> QED
    BY <1>2, <1>3, <1>7, <2>1
<1>9. \A i \in User : \A j : Translate(mem, KernelPD, i, j) = None
  BY <1>8 DEF Translate
<1>10. Commands /\ Stages /\ Entered
  BY <1>1, <1>5, <1>9 DEF Commands, Stages, NoSlot, Entered
<1>11. Trees
  BY <1>1, <1>5, <1>6, <1>7, <1>8 DEF Trees, Directory
<1>12. ASSUME NEW g \in Frames \ reserved PROVE Single(g)
  <2>1. g # 0 /\ g # None
    BY <1>5
  <2>2. \A k, d, i, j : ~Holds(k, d, i, j, g)
    BY <1>1, <1>6, <1>8, <1>9, <2>1 DEF Holds
  <2>3. \A o : o \notin Owners(g)
    BY <2>2, OwnersAre, Zenon
  <2> QED
    BY <1>1, <2>3 DEF Single
<1> QED
  BY <1>4, <1>10, <1>11, <1>12 DEF Tree, Singles

(* A stage is entered by the command it belongs to. *)
LEMMA NextCommands ==
  ASSUME Commands, [Next]_vars
  PROVE  Commands'
<1> USE DEF Commands, Halt, Still, At, InSlot, NoSlot
<1>1. CASE process_create
  BY <1>1 DEF process_create, BeginCreate, CreateDir, FillDir, CreateKernelStack, KeepKernelStack,
              CreateUserStack, SwitchToNew, MapCode, SetContext, Undo
<1>2. CASE vmm_map_page
  BY <1>2 DEF vmm_map_page, GetTable, NoTable, LinkTable, SetEntry
<1>3. CASE test_commands
  BY <1>3 DEF test_commands, BeginTest, WriteAndUnmap, EnterUserMode, FreePage
<1>4. CASE scheduler_start \/ Dispatch \/ UNCHANGED vars
  BY <1>4 DEF scheduler_start, Dispatch, vars
<1> QED
  BY <1>1, <1>2, <1>3, <1>4 DEF Next

(* Which directory is loaded while the shell has the CPU. *)
LEMMA NextDirectory ==
  ASSUME Commands, DirectoryRestored, [Next]_vars
  PROVE  DirectoryRestored'
<1> USE DEF DirectoryRestored, Commands, Halt, Still, At, InSlot
<1>1. CASE process_create
  BY <1>1 DEF process_create, BeginCreate, CreateDir, FillDir, CreateKernelStack, KeepKernelStack,
              CreateUserStack, SwitchToNew, MapCode, SetContext, Undo
<1>2. CASE vmm_map_page
  <2>1. CASE GetTable
    BY <2>1 DEF GetTable
  <2>2. CASE NoTable
    BY <2>2 DEF NoTable
  <2>3. CASE LinkTable
    BY <2>3 DEF LinkTable
  <2>4. CASE SetEntry
    BY <2>4 DEF SetEntry
  <2> QED
    BY <1>2, <2>1, <2>2, <2>3, <2>4 DEF vmm_map_page
<1>3. CASE test_commands
  BY <1>3 DEF test_commands, BeginTest, WriteAndUnmap, EnterUserMode, FreePage
<1>4. CASE scheduler_start \/ Dispatch \/ UNCHANGED vars
  BY <1>4 DEF scheduler_start, Dispatch, vars
<1> QED
  BY <1>1, <1>2, <1>3, <1>4 DEF Next

LEMMA DestroyedStays ==
  ASSUME [Next]_vars, destroyed
  PROVE  destroyed'
<1> USE DEF Halt
<1>1. CASE process_create
  BY <1>1 DEF process_create, BeginCreate, CreateDir, FillDir, CreateKernelStack, KeepKernelStack,
              CreateUserStack, SwitchToNew, MapCode, SetContext, Undo
<1>2. CASE vmm_map_page
  BY <1>2 DEF vmm_map_page, GetTable, NoTable, LinkTable, SetEntry
<1>3. CASE test_commands
  BY <1>3 DEF test_commands, BeginTest, WriteAndUnmap, EnterUserMode, FreePage
<1>4. CASE scheduler_start \/ Dispatch \/ UNCHANGED vars
  BY <1>4 DEF scheduler_start, Dispatch, vars
<1> QED
  BY <1>1, <1>2, <1>3, <1>4 DEF Next

(* Every step keeps the tree, as long as no directory is destroyed. *)
LEMMA CreateTree ==
  ASSUME Tree, process_create, Commands', ~destroyed'
  PROVE  Tree'
<1> USE DEF At, InSlot, Still
<1>1. Types /\ 0 \in reserved /\ None \notin Frames
  BY LayoutFacts DEF Tree
<1>2. CASE BeginCreate
  <2>1. Stages' /\ Entered'
    BY <1>1, <1>2 DEF BeginCreate, Tree, Commands, Stages, Entered
  <2> QED
    BY <1>2, <2>1, QuietStep DEF BeginCreate, Tree, Stages
<1>3. CASE CreateDir
  <2>1. phys' = pmm_alloc_page(used) /\ phys = 0 /\ new = NoSlot
    BY <1>3 DEF CreateDir, Tree, Stages
  <2>2. Entered'
    BY <1>1, <1>3 DEF CreateDir, Tree, Entered, NoSlot
  <2>3. CASE phys' = 0
    <3>1. Stages'
      BY <1>1, <1>3, <2>1, <2>3 DEF CreateDir, Tree, Stages
    <3> QED
      BY <1>3, <2>1, <2>2, <2>3, <3>1, QuietStep DEF CreateDir
  <2>4. CASE phys' # 0
    <3>1. PICK f : f = pmm_alloc_page(used)
      OBVIOUS
    <3>2. f \in Frames \ used /\ f \notin reserved
      BY <1>1, <2>1, <2>4, <3>1, AllocIsFree DEF Types
    <3>3. Stages'
      BY <1>3, <2>1, <2>4, <3>1, <3>2 DEF CreateDir, Tree, Stages
    <3> QED
      BY <1>3, <2>1, <2>2, <2>4, <3>1, <3>2, <3>3, TakeFrame DEF CreateDir
  <2> QED
    BY <2>3, <2>4
<1>4. CASE FillDir
  <2>1. CASE Halt
    BY <2>1, SameStep DEF Halt
  <2>2. CASE ~Halt
    <3>1. PICK f : f = phys
      OBVIOUS
    <3>2. new' = [dir |-> f, kstack |-> 0, ustack |-> 0] /\ mem' = [mem EXCEPT ![f] = NewDirectory(mem)]
      BY <1>4, <2>2, <3>1 DEF FillDir, NoSlot
    <3> QED
      BY <1>4, <2>2, <3>1, <3>2, FillStep DEF FillDir
  <2> QED
    BY <2>1, <2>2
<1>5. CASE CreateKernelStack
  <2>1. phys' = pmm_alloc_page(used) /\ phys = 0
    BY <1>5 DEF CreateKernelStack, Tree, Stages
  <2>2. Entered'
    BY <1>5 DEF CreateKernelStack, Tree, Entered
  <2>3. CASE phys' = 0
    <3>1. Stages'
      BY <1>5, <2>3 DEF CreateKernelStack, Tree, Stages
    <3> QED
      BY <1>5, <2>1, <2>2, <2>3, <3>1, QuietStep DEF CreateKernelStack
  <2>4. CASE phys' # 0
    <3>1. PICK f : f = pmm_alloc_page(used)
      OBVIOUS
    <3>2. f \in Frames \ used /\ f \notin reserved
      BY <1>1, <2>1, <2>4, <3>1, AllocIsFree DEF Types
    <3>3. Stages'
      BY <1>5, <2>1, <2>4, <3>1, <3>2 DEF CreateKernelStack, Tree, Stages
    <3> QED
      BY <1>5, <2>1, <2>2, <2>4, <3>1, <3>2, <3>3, TakeFrame DEF CreateKernelStack
  <2> QED
    BY <2>3, <2>4
<1>6. CASE KeepKernelStack
  <2>1. PICK f : f = phys
    OBVIOUS
  <2>2. new' = [dir |-> new.dir, kstack |-> f, ustack |-> new.ustack]
    BY <1>6, <2>1 DEF KeepKernelStack, Tree, Types, Slots
  <2> QED
    BY <1>6, <2>1, <2>2, KeepStep DEF KeepKernelStack
<1>7. CASE CreateUserStack
  <2>1. phys' = pmm_alloc_page(used) /\ phys = 0
    BY <1>7 DEF CreateUserStack, Tree, Stages
  <2>2. Entered'
    BY <1>7 DEF CreateUserStack, Tree, Entered
  <2>3. CASE phys' = 0
    <3>1. Stages'
      BY <1>7, <2>3 DEF CreateUserStack, Tree, Stages
    <3> QED
      BY <1>7, <2>1, <2>2, <2>3, <3>1, QuietStep DEF CreateUserStack
  <2>4. CASE phys' # 0
    <3>1. PICK f : f = pmm_alloc_page(used)
      OBVIOUS
    <3>2. f \in Frames \ used /\ f \notin reserved
      BY <1>1, <2>1, <2>4, <3>1, AllocIsFree DEF Types
    <3>3. Stages'
      BY <1>7, <2>1, <2>4, <3>1, <3>2 DEF CreateUserStack, Tree, Stages
    <3> QED
      BY <1>7, <2>1, <2>2, <2>4, <3>1, <3>2, <3>3, TakeFrame DEF CreateUserStack
  <2> QED
    BY <2>3, <2>4
<1>8. CASE SwitchToNew
  <2>1. Stages' /\ Entered'
    BY <1>8 DEF SwitchToNew, Tree, Stages, Entered
  <2> QED
    BY <1>8, <2>1, QuietStep DEF SwitchToNew
<1>9. CASE MapCode
  <2>1. Stages' /\ Entered'
    BY <1>9 DEF MapCode, Tree, Stages, Entered
  <2> QED
    BY <1>9, <2>1, QuietStep DEF MapCode
<1>10. CASE SetContext
  BY <1>10, ContextStep DEF SetContext
<1>11. CASE Undo
  BY <1>11 DEF Undo
<1> QED
  BY <1>2, <1>3, <1>4, <1>5, <1>6, <1>7, <1>8, <1>9, <1>10, <1>11 DEF process_create

LEMMA LoadedIsTarget ==
  ASSUME Commands, DirectoryRestored, cpu = "shell", stage \in {"map", "link", "entry", "use"}
  PROVE  current_pd_phys = Target /\ (stage = "use" => Target = KernelPD /\ Pd = TestPd)
BY DEF Commands, DirectoryRestored, Target, Pd

LEMMA MapTree ==
  ASSUME Tree, DirectoryRestored, vmm_map_page, Commands'
  PROVE  Tree'
<1> USE DEF At, Still
<1>1. PICK d, i : d = Target /\ i = Pd
  OBVIOUS
<1>2. Types /\ Commands /\ None \notin Frames /\ i \in User
  BY <1>1, LayoutFacts DEF Tree
<1>3. CASE GetTable
  <2>1. d = current_pd_phys /\ stage = "map" /\ cpu = "shell"
    BY <1>1, <1>2, <1>3, LoadedIsTarget DEF GetTable
  <2>2. CASE mem[d][i] # None
    <3>1. stage' = "entry" /\ UNCHANGED <<reserved, used, mem, processes, op, new, phys, pt_phys>>
      BY <1>1, <1>3, <2>1, <2>2 DEF GetTable
    <3>2. Stages'
      BY <2>1, <3>1 DEF Tree, Stages
    <3>3. Entered'
      <4>1. Translate(mem, d, i, Pt) = None
        <5>1. CASE op = "create"
          <6>1. \A k \in User : mem[d][k] = None
            BY <1>1, <2>1, <5>1 DEF Tree, Entered, Target
          <6> QED
            BY <1>2, <2>2, <6>1
        <5>2. CASE op # "create"
          <6>1. d = KernelPD /\ i = TestPd
            BY <1>1, <5>2 DEF Target, Pd
          <6>2. \A l \in Index : Translate(mem, d, i, l) = None
            BY <2>1, <6>1 DEF Tree, Entered
          <6> QED
            BY <1>2, <6>2, LayoutFacts
        <5> QED
          BY <5>1, <5>2
      <4>2. Target' = d /\ Pd' = i /\ Pt' = Pt
        BY <1>1, <3>1 DEF Target, Pd, Pt
      <4>3. mem'[Target'][Pd'] # None /\ Translate(mem', Target', Pd', Pt') = None
        BY <2>2, <3>1, <4>1, <4>2
      <4>4. \A l \in Index : Translate(mem', KernelPD, TestPd, l) = None
        BY <2>1, <3>1 DEF Tree, Entered
      <4> QED
        BY <3>1, <4>3, <4>4 DEF Entered
    <3> QED
      BY <2>1, <3>1, <3>2, <3>3, QuietStep
  <2>3. CASE mem[d][i] = None
    <3>1. PICK f : f = pmm_alloc_page(used)
      OBVIOUS
    <3>2. /\ stage' = "link" /\ pt_phys' = f /\ f # 0 /\ used' = used \cup {f}
          /\ UNCHANGED <<reserved, mem, processes, op, new, phys>>
      BY <1>1, <1>3, <2>1, <2>3, <3>1 DEF GetTable
    <3>3. f \in Frames \ used /\ f \notin reserved
      BY <1>2, <3>1, <3>2, AllocIsFree DEF Types
    <3>4. Stages'
      BY <2>1, <3>2, <3>3 DEF Tree, Stages
    <3>5. Entered'
      <4>1. Target' = d /\ Pd' = i
        BY <1>1, <3>2 DEF Target, Pd
      <4> QED
        BY <2>1, <2>3, <3>2, <4>1 DEF Tree, Entered
    <3> QED
      BY <2>1, <3>2, <3>3, <3>4, <3>5, TakeTable
  <2> QED
    BY <2>2, <2>3
<1>4. CASE NoTable
  <2>1. Stages' /\ Entered'
    BY <1>4 DEF NoTable, Tree, Stages, Entered
  <2> QED
    BY <1>4, <2>1, QuietStep DEF NoTable
<1>5. CASE LinkTable
  <2>1. CASE Halt
    BY <2>1, SameStep DEF Halt
  <2>2. CASE ~Halt
    <3>1. PICK t : t = pt_phys
      OBVIOUS
    <3>2. /\ d = current_pd_phys /\ stage = "link" /\ stage' = "entry" /\ pt_phys' = 0
          /\ mem' = [mem EXCEPT ![t] = Blank, ![d][i] = t]
          /\ UNCHANGED <<reserved, used, processes, op, new, phys>>
      BY <1>1, <1>2, <1>5, <2>2, <3>1, LoadedIsTarget DEF LinkTable
    <3>3. d \in LiveDirs /\ mem[d][i] = None /\ t \in Frames \ reserved
      BY <1>1, <3>1, <3>2, TargetIsLive DEF Tree, Types, Stages, Entered
    <3>4. Detached(t)
      BY <3>1, <3>2, <3>3, LocalIsDetached DEF Tree
    <3>5. TableIs(d, i, t)
      BY <1>2, <3>2, <3>3, <3>4, TableWritten
    <3> QED
      BY <1>1, <3>1, <3>2, <3>5, LinkStep
  <2> QED
    BY <2>1, <2>2
<1>6. CASE SetEntry
  <2>1. PICK j, v, s : j = Pt /\ v = phys /\ s = mem[d][i]
    OBVIOUS
  <2>2. /\ d = current_pd_phys /\ stage = "entry" /\ mem' = [mem EXCEPT ![s][j] = v]
        /\ UNCHANGED <<reserved, used, processes, op, pt_phys>>
    BY <1>1, <1>2, <1>6, <2>1, LoadedIsTarget DEF SetEntry
  <2>3. d \in LiveDirs /\ s # None /\ j \in Index /\ v \in Int
    BY <1>1, <1>2, <2>1, <2>2, TargetIsLive, LayoutFacts DEF Tree, Types, Entered
  <2>4. EntryIs(d, i, j, v)
    BY <1>2, <2>1, <2>2, <2>3, EntryWritten
  <2>5. \/ /\ op = "create" /\ stage' = "code" /\ phys' = 0
           /\ new' = [dir |-> new.dir, kstack |-> new.kstack, ustack |-> v]
        \/ op # "create" /\ stage' = "use" /\ UNCHANGED <<new, phys>>
    BY <1>2, <1>6, <2>1 DEF SetEntry, Types, Slots
  <2> QED
    BY <1>1, <2>1, <2>2, <2>4, <2>5, EntryStep
<1> QED
  BY <1>3, <1>4, <1>5, <1>6 DEF vmm_map_page

LEMMA TestTree ==
  ASSUME Tree, DirectoryRestored, test_commands, Commands'
  PROVE  Tree'
<1> USE DEF At, Still
<1>1. Types /\ Commands /\ 0 \in reserved /\ None \notin Frames /\ None \in Int
  BY LayoutFacts DEF Tree
<1>2. ASSUME NEW command \in {"alloc", "usermode"}, BeginTest(command)
      PROVE  Tree'
  <2>1. PICK f : f = pmm_alloc_page(used)
    OBVIOUS
  <2>2. /\ phys' = f /\ f # 0 /\ used' = used \cup {f} /\ phys = 0 /\ stage = "idle"
        /\ stage' = "map" /\ op' = command /\ new = NoSlot
        /\ UNCHANGED <<reserved, mem, processes, new, pt_phys>>
    BY <1>2, <2>1 DEF BeginTest, Tree, Stages
  <2>3. f \in Frames \ used /\ f \notin reserved
    BY <1>1, <2>1, <2>2, AllocIsFree DEF Types
  <2>4. Stages' /\ Entered'
    BY <2>2, <2>3 DEF Tree, Stages, Entered
  <2> QED
    BY <2>2, <2>3, <2>4, TakeFrame
<1>3. CASE WriteAndUnmap
  <2>1. CASE Halt
    BY <2>1, SameStep DEF Halt
  <2>2. CASE ~Halt
    <3>1. PICK d, i, j, v, s : d = KernelPD /\ i = TestPd /\ j = Pt /\ v = phys /\ s = mem[d][i]
      OBVIOUS
    <3>2. /\ stage = "use" /\ stage' = "free" /\ mem' = [mem EXCEPT ![s][j] = None]
          /\ UNCHANGED <<reserved, used, processes, op, new, phys, pt_phys>>
      BY <1>1, <1>3, <2>2, <3>1, LoadedIsTarget DEF WriteAndUnmap
    <3>3. d \in LiveDirs /\ i \in User /\ j \in Index /\ s # None
      BY <1>1, <3>1, <3>2, LayoutFacts DEF Tree, Entered
    <3>4. EntryIs(d, i, j, None)
      BY <1>1, <3>1, <3>2, <3>3, EntryWritten
    <3> QED
      BY <3>1, <3>2, <3>4, UnmapStep
  <2> QED
    BY <2>1, <2>2
<1>4. CASE EnterUserMode
  BY <1>4, SameStep DEF EnterUserMode, Halt
<1>5. CASE FreePage
  <2>1. Stages' /\ Entered'
    BY <1>1, <1>5 DEF FreePage, Tree, Commands, Stages, Entered
  <2> QED
    BY <1>5, <2>1, FreeStep DEF FreePage
<1> QED
  BY <1>2, <1>3, <1>4, <1>5 DEF test_commands

-----------------------------------------------------------------------------
(* The invariant: which directory the shell runs on, and, until            *)
(* vmm_destroy_page_directory is called, directories that are trees which  *)
(* share the first table and nothing else, whatever a tick interrupts.     *)
THEOREM Invariance == Spec => []VmmInv
<1>1. Init => VmmInv
  BY InitTree DEF VmmInv, Tree, Init, DirectoryRestored
<1>2. VmmInv /\ [Next]_vars => VmmInv'
  <2> SUFFICES ASSUME VmmInv, [Next]_vars PROVE VmmInv'
    OBVIOUS
  <2>1. Commands' /\ DirectoryRestored'
    BY NextCommands, NextDirectory DEF VmmInv
  <2>2. ASSUME ~destroyed' PROVE Tree'
    <3>1. Tree /\ DirectoryRestored
      BY <2>2, DestroyedStays DEF VmmInv
    <3>2. CASE process_create
      BY <2>1, <2>2, <3>1, <3>2, CreateTree
    <3>3. CASE vmm_map_page
      BY <2>1, <3>1, <3>3, MapTree
    <3>4. CASE test_commands
      BY <2>1, <3>1, <3>4, TestTree
    <3>5. CASE scheduler_start \/ Dispatch \/ UNCHANGED vars
      BY <3>1, <3>5, SameStep DEF scheduler_start, Dispatch, vars
    <3> QED
      BY <3>2, <3>3, <3>4, <3>5 DEF Next
  <2> QED
    BY <2>1, <2>2 DEF VmmInv
<1> QED
  BY <1>1, <1>2, PTL DEF Spec

(* While the shell has the CPU it runs on the kernel's directory, but for  *)
(* the time in which process_create maps the user stack: it is back there  *)
(* whichever allocation failed.                                            *)
THEOREM ShellDirectory == Spec => []DirectoryRestored
<1>1. VmmInv => DirectoryRestored
  BY DEF VmmInv
<1> QED
  BY <1>1, Invariance, PTL

(* Whichever directory is loaded, the low addresses are mapped to          *)
(* themselves, so that the kernel's code and its tables are reachable.     *)
THEOREM IdentityKept == Spec => []IdentityEverywhere
<1>1. VmmInv => IdentityEverywhere
  <2> SUFFICES ASSUME VmmInv, ~destroyed, NEW d \in LiveDirs, NEW j \in Index
               PROVE  Translate(mem, d, 0, j) = j
    BY DEF IdentityEverywhere
  <2>1. Types /\ mem[d][0] = FirstTable /\ mem[FirstTable] = [k \in Index |-> k]
    BY DEF VmmInv, Tree, Trees, Directory
  <2>2. FirstTable # None
    BY <2>1, LayoutFacts
  <2> QED
    BY <2>1, <2>2 DEF Translate
<1> QED
  BY <1>1, Invariance, PTL

(* The user stack of a process is mapped at the top of the user addresses  *)
(* of its own directory and of no other.                                   *)
THEOREM StacksArePrivate == Spec => []StackIsPrivate
<1>1. VmmInv => StackIsPrivate
  <2> SUFFICES ASSUME VmmInv, ~destroyed, NEW p \in processes, NEW d \in LiveDirs
               PROVE  Translate(mem, d, StackPd, LastPt) = p.ustack <=> d = p.dir
    BY DEF StackIsPrivate
  <2>1. Tree /\ Types /\ p.dir \in LiveDirs
    BY DEF VmmInv, Tree, LiveDirs, Dirs
  <2>2. /\ p.ustack \in Frames \ reserved /\ Translate(mem, p.dir, StackPd, LastPt) = p.ustack
        /\ StackPd \in User /\ LastPt \in Index
    BY <2>1, LayoutFacts DEF Tree, Trees, Types, Slots
  <2>3. ASSUME Translate(mem, d, StackPd, LastPt) = p.ustack PROVE d = p.dir
    <3>1. PICK f, e : f = p.ustack /\ e = p.dir
      OBVIOUS
    <3>2. Holds("page", e, StackPd, LastPt, f) /\ Holds("page", d, StackPd, LastPt, f)
      BY <2>1, <2>2, <2>3, <3>1 DEF Holds
    <3>3. d = e
      BY <2>1, <2>2, <3>1, <3>2, OnlyOwner DEF Tree
    <3> QED
      BY <3>1, <3>3
  <2> QED
    BY <2>2, <2>3
<1> QED
  BY <1>1, Invariance, PTL

(* Every frame that pmm_init left free is in use exactly when one          *)
(* directory, table entry, kernel stack or local of the shell's command    *)
(* holds it: nothing is shared, a command that ends leaks nothing, and one *)
(* that a tick interrupts for good leaks what its locals hold.             *)
THEOREM NothingShared == Spec => []FramesAccounted
<1>1. VmmInv => FramesAccounted
  <2> SUFFICES ASSUME VmmInv, ~destroyed, NEW f \in Frames \ reserved
               PROVE  Cardinality(Owners(f)) = IF f \in used THEN 1 ELSE 0
    BY DEF FramesAccounted
  <2>1. Single(f)
    BY DEF VmmInv, Tree, Singles
  <2>2. CASE f \in used
    <3>1. PICK o : Owners(f) = {o}
      BY <2>1, <2>2 DEF Single
    <3>2. Cardinality({o}) = 1
      BY FS_Singleton
    <3> QED
      BY <2>2, <3>1, <3>2
  <2>3. CASE f \notin used
    BY <2>1, <2>3, FS_EmptySet DEF Single
  <2> QED
    BY <2>2, <2>3
<1> QED
  BY <1>1, Invariance, PTL
=============================================================================
