---------------------- MODULE PosixMessageQueueProofs ----------------------
(***************************************************************************)
(* Proofs about PosixMessageQueue for any number of objects, names, kernel *)
(* queues and descriptors: descriptors are neither leaked nor shared, a    *)
(* handle keeps the geometry it asked for, and, where cleaning up works,   *)
(* every queue name has exactly one object that will unlink it.            *)
(***************************************************************************)
EXTENDS PosixMessageQueue, TLAPS

\* An object that does not exist holds nothing.
DeadInv ==
  \A o \in Objects : ~obj[o].live => obj[o].descriptor = kInvalidMqd /\ ~obj[o].owns

HandleInv == TypeOK /\ DeadInv /\ DescriptorsOwned /\ GeometryAgrees

\* Nothing is open in the beginning.
LEMMA InitHandles == Init => HandleInv
<1> SUFFICES ASSUME Init PROVE HandleInv
  OBVIOUS
<1> USE QueueAssumption
<1>1. TypeOK
  BY DEF Init, TypeOK, Object, Dead
<1>2. DeadInv
  BY DEF Init, DeadInv, Dead
<1>3. DescriptorsOwned
  BY DEF Init, DescriptorsOwned, Dead, is_open
<1>4. GeometryAgrees
  BY DEF Init, GeometryAgrees, Dead, is_open
<1> QED
  BY <1>1, <1>2, <1>3, <1>4 DEF HandleInv

\* An object that comes into being without a descriptor disturbs nothing.
LEMMA NewUnopened ==
  ASSUME HandleInv, NEW o \in Objects, NEW n \in Names \cup {NoName},
         ~obj[o].live, obj' = [obj EXCEPT ![o] = Unopened(n)],
         UNCHANGED <<link, geometry, open>>
  PROVE  HandleInv'
<1> USE QueueAssumption DEF HandleInv
<1>1. TypeOK'
  BY DEF TypeOK, Object, Unopened
<1>2. \A x \in Objects : obj'[x] = IF x = o THEN Unopened(n) ELSE obj[x]
  BY DEF TypeOK
<1>3. obj[o].descriptor = kInvalidMqd /\ Unopened(n).descriptor = kInvalidMqd
        /\ Unopened(n).live
  BY DEF DeadInv, Unopened
<1>4. DeadInv'
  BY <1>2, <1>3 DEF DeadInv
<1>5. DescriptorsOwned'
  BY <1>2, <1>3 DEF DescriptorsOwned, is_open
<1>6. GeometryAgrees'
  BY <1>2, <1>3 DEF GeometryAgrees, is_open
<1> QED
  BY <1>1, <1>4, <1>5, <1>6

\* An object that comes into being with a free descriptor of queue q, where q
\* has the geometry the object asked for, if it asked for one.
LEMMA NewOpened ==
  ASSUME HandleInv, NEW o \in Objects, NEW d \in Descriptors, NEW q \in Queues,
         NEW x \in Object,
         ~obj[o].live, open[d] = NoQueue,
         x.live, x.descriptor = d,
         obj' = [obj EXCEPT ![o] = x], open' = [open EXCEPT ![d] = q],
         link' \in [Names -> Queues \cup {NoQueue}],
         geometry' \in [Queues -> Configs],
         \A e \in Descriptors : open[e] # NoQueue => geometry'[open[e]] = geometry[open[e]],
         x.config # NoConfig => geometry'[q] = x.config
  PROVE  HandleInv'
<1> USE QueueAssumption DEF HandleInv
<1>1. TypeOK'
  BY DEF TypeOK
<1>2. /\ \A y \in Objects : obj'[y] = IF y = o THEN x ELSE obj[y]
      /\ \A e \in Descriptors : open'[e] = IF e = d THEN q ELSE open[e]
  BY DEF TypeOK
<1>3. obj[o].descriptor = kInvalidMqd
  BY DEF DeadInv
<1>4. DeadInv'
  BY <1>2 DEF DeadInv
<1>5. \A y \in Objects : obj[y].descriptor # d
  BY DEF DescriptorsOwned
<1>6. DescriptorsOwned'
  BY <1>2, <1>3, <1>5 DEF DescriptorsOwned, is_open
<1>7. \A y \in Objects : is_open(y) => obj[y].descriptor \in Descriptors
                                        /\ open[obj[y].descriptor] # NoQueue
  BY DEF DescriptorsOwned, is_open, TypeOK, Object
<1>8. GeometryAgrees'
  BY <1>2, <1>5, <1>7 DEF GeometryAgrees, is_open
<1> QED
  BY <1>1, <1>4, <1>6, <1>8

\* Both outcomes of a successful mq_open, and the open_only factories.
LEMMA OpenStep ==
  ASSUME HandleInv, NEW o \in Objects,
         \/ \E n \in Names \cup {NoName}, c \in Configs \cup {NoConfig} : open_or_create(o, n, c)
         \/ \E n \in Names : open_only(o, n)
  PROVE  HandleInv'
<1> USE QueueAssumption DEF HandleInv
<1>1. ASSUME NEW n \in Names \cup {NoName}, OpenFails(o, n) PROVE HandleInv'
  BY <1>1, NewUnopened DEF OpenFails
<1>2. ASSUME NEW n \in Names, NEW c \in Configs, NEW d \in Descriptors, OpenExisting(o, n, c, d)
      PROVE  HandleInv'
  <2> DEFINE x == [live |-> TRUE, descriptor |-> d, name |-> n, owns |-> FALSE, config |-> c]
  <2>1. x \in Object /\ x.live /\ x.descriptor = d /\ x.config = c
    BY DEF Object
  <2>2. link[n] \in Queues /\ open[d] = NoQueue /\ geometry[link[n]] = c /\ ~obj[o].live
    BY <1>2 DEF OpenExisting, TypeOK, FreeDescriptors, GeometryMatches
  <2>3. obj' = [obj EXCEPT ![o] = x] /\ open' = [open EXCEPT ![d] = link[n]]
          /\ link' = link /\ geometry' = geometry
    BY <1>2 DEF OpenExisting
  <2>4. link' \in [Names -> Queues \cup {NoQueue}] /\ geometry' \in [Queues -> Configs]
    BY <2>3 DEF TypeOK
  <2> HIDE DEF x
  <2> QED
    BY <2>1, <2>2, <2>3, <2>4, NewOpened
<1>3. ASSUME NEW n \in Names, NEW c \in Configs, NEW d \in Descriptors, NEW q \in Queues,
             Create(o, n, c, d, q)
      PROVE  HandleInv'
  <2> DEFINE x == [live |-> TRUE, descriptor |-> d, name |-> n, owns |-> TRUE, config |-> c]
  <2>1. x \in Object /\ x.live /\ x.descriptor = d /\ x.config = c
    BY DEF Object
  <2>2. open[d] = NoQueue /\ ~obj[o].live /\ \A e \in Descriptors : open[e] # q
    BY <1>3 DEF Create, FreeDescriptors, FreeQueues
  <2>3. obj' = [obj EXCEPT ![o] = x] /\ open' = [open EXCEPT ![d] = q]
          /\ geometry' = [geometry EXCEPT ![q] = c]
    BY <1>3 DEF Create
  <2>4. link' \in [Names -> Queues \cup {NoQueue}] /\ geometry' \in [Queues -> Configs]
    BY <1>3 DEF TypeOK, Create
  <2>5. geometry'[q] = c
          /\ \A e \in Descriptors : open[e] # NoQueue => geometry'[open[e]] = geometry[open[e]]
    BY <2>2, <2>3 DEF TypeOK
  <2> HIDE DEF x
  <2> QED
    BY <2>1, <2>2, <2>3, <2>4, <2>5, NewOpened
<1>4. ASSUME NEW n \in Names, open_only(o, n) PROVE HandleInv'
  <2>0. PICK d \in FreeDescriptors :
          /\ obj' = [obj EXCEPT ![o] = [live |-> TRUE, descriptor |-> d, name |-> n,
                                        owns |-> FALSE, config |-> NoConfig]]
          /\ open' = [open EXCEPT ![d] = link[n]]
    BY <1>4 DEF open_only
  <2> DEFINE x == [live |-> TRUE, descriptor |-> d, name |-> n, owns |-> FALSE,
                   config |-> NoConfig]
  <2>1. x \in Object /\ x.live /\ x.descriptor = d /\ x.config = NoConfig
    BY DEF Object, FreeDescriptors
  <2>2. link[n] \in Queues /\ d \in Descriptors /\ open[d] = NoQueue /\ ~obj[o].live
    BY <1>4 DEF open_only, TypeOK, FreeDescriptors
  <2>3. obj' = [obj EXCEPT ![o] = x] /\ open' = [open EXCEPT ![d] = link[n]]
          /\ link' = link /\ geometry' = geometry
    BY <1>4, <2>0 DEF open_only
  <2>4. link' \in [Names -> Queues \cup {NoQueue}] /\ geometry' \in [Queues -> Configs]
    BY <2>3 DEF TypeOK
  <2> HIDE DEF x
  <2> QED
    BY <2>1, <2>2, <2>3, <2>4, NewOpened
<1> QED
  BY <1>1, <1>2, <1>3, <1>4 DEF open_or_create

\* close() of an object, whatever becomes of the object: x replaces it, and x
\* has no descriptor.
LEMMA CloseHandle ==
  ASSUME HandleInv, NEW o \in Objects, NEW unlinked \in BOOLEAN, NEW x \in Object,
         obj[o].live, x.descriptor = kInvalidMqd, ~x.live => ~x.owns,
         obj' = [obj EXCEPT ![o] = x], CloseInKernel(obj[o], unlinked)
  PROVE  HandleInv'
<1> USE QueueAssumption DEF HandleInv
<1>1. TypeOK'
  BY DEF TypeOK, CloseInKernel
<1>2. /\ \A y \in Objects : obj'[y] = IF y = o THEN x ELSE obj[y]
      /\ \A e \in Descriptors : open'[e] = IF e = obj[o].descriptor THEN NoQueue ELSE open[e]
      /\ geometry' = geometry
  BY DEF TypeOK, CloseInKernel
<1>3. DeadInv'
  BY <1>2 DEF DeadInv
<1>4. DescriptorsOwned'
  BY <1>2 DEF DescriptorsOwned, is_open, TypeOK, Object
<1>5. GeometryAgrees'
  BY <1>2 DEF GeometryAgrees, DescriptorsOwned, is_open, TypeOK, Object
<1> QED
  BY <1>1, <1>3, <1>4, <1>5

\* close() and the destructor.
LEMMA CloseStep ==
  ASSUME HandleInv, NEW o \in Objects, NEW unlinked \in BOOLEAN,
         Close(o, unlinked) \/ Destroy(o, unlinked)
  PROVE  HandleInv'
<1> USE QueueAssumption DEF HandleInv
<1>1. CASE Close(o, unlinked)
  <2> DEFINE x == Closed(obj[o], unlinked)
  <2>0. obj[o] \in Object /\ obj[o].live
    BY <1>1 DEF TypeOK, Close
  <2>1. is_open(o) => mq_close(obj[o].descriptor)
    BY <2>0 DEF DescriptorsOwned, is_open, mq_close, Object
  <2>2. x \in Object /\ x.live /\ x.descriptor = kInvalidMqd
    BY <2>0, <2>1 DEF Closed, Object, is_open
  <2>3. obj' = [obj EXCEPT ![o] = x] /\ CloseInKernel(obj[o], unlinked)
    BY <1>1 DEF Close
  <2> HIDE DEF x
  <2> QED
    BY <2>0, <2>2, <2>3, CloseHandle
<1>2. CASE Destroy(o, unlinked)
  <2>1. Dead \in Object /\ Dead.descriptor = kInvalidMqd /\ ~Dead.owns
    BY DEF Dead, Object
  <2> QED
    BY <1>2, <2>1, CloseHandle DEF Destroy
<1> QED
  BY <1>1, <1>2

\* The two moves.
LEMMA MoveStep ==
  ASSUME HandleInv, NEW o \in Objects, NEW p \in Objects, NEW unlinked \in BOOLEAN,
         MoveConstruct(o, p) \/ MoveAssign(o, p, unlinked)
  PROVE  HandleInv'
<1> USE QueueAssumption DEF HandleInv
<1> DEFINE m == MovedFrom(obj[p])
<1>1. o # p /\ obj[p].live /\ obj[o] \in Object /\ obj[p] \in Object
  BY DEF MoveConstruct, MoveAssign, TypeOK
<1>2. m \in Object /\ m.live /\ m.descriptor = kInvalidMqd /\ ~m.owns
  BY <1>1 DEF MovedFrom, Object
<1>3. obj' = [obj EXCEPT ![o] = obj[p], ![p] = m]
  BY DEF MoveConstruct, MoveAssign
<1> HIDE DEF m
<1>4. \A y \in Objects : obj'[y] = IF y = p THEN m ELSE IF y = o THEN obj[p] ELSE obj[y]
  BY <1>3 DEF TypeOK
<1>5. obj' \in [Objects -> Object]
  BY <1>1, <1>2, <1>3 DEF TypeOK
<1>6. DeadInv'
  BY <1>1, <1>2, <1>4 DEF DeadInv
<1>7. CASE MoveConstruct(o, p)
  <2>1. UNCHANGED <<link, geometry, open>> /\ obj[o].descriptor = kInvalidMqd
    BY <1>7 DEF MoveConstruct, DeadInv
  <2>2. TypeOK'
    BY <1>5, <2>1 DEF TypeOK
  <2>3. DescriptorsOwned'
    BY <1>1, <1>2, <1>4, <2>1 DEF DescriptorsOwned, is_open
  <2>4. GeometryAgrees'
    BY <1>1, <1>2, <1>4, <2>1 DEF GeometryAgrees, is_open
  <2> QED
    BY <1>6, <2>2, <2>3, <2>4
<1>8. CASE MoveAssign(o, p, unlinked)
  <2>1. /\ \A e \in Descriptors : open'[e] = IF e = obj[o].descriptor THEN NoQueue ELSE open[e]
        /\ geometry' = geometry
    BY <1>8 DEF MoveAssign, CloseInKernel
  <2>2. TypeOK'
    BY <1>5, <1>8 DEF TypeOK, MoveAssign, CloseInKernel
  <2>3. DescriptorsOwned'
    <3>1. ASSUME NEW e \in Descriptors
          PROVE  open'[e] # NoQueue <=> \E y \in Objects : obj'[y].descriptor = e
      <4>1. CASE e = obj[o].descriptor
        <5>1. is_open(o) /\ obj[p].descriptor # e
          BY <1>1, <3>1, <4>1 DEF DescriptorsOwned, is_open
        <5> QED
          BY <1>2, <1>4, <2>1, <3>1, <4>1, <5>1 DEF DescriptorsOwned, is_open
      <4>2. CASE e # obj[o].descriptor
        <5>1. (\E y \in Objects : obj[y].descriptor = e)
                <=> (\E y \in Objects : obj'[y].descriptor = e)
          BY <1>1, <1>2, <1>4, <3>1, <4>2
        <5> QED
          BY <2>1, <3>1, <4>2, <5>1 DEF DescriptorsOwned
      <4> QED
        BY <4>1, <4>2
    <3>2. \A y, z \in Objects :
            obj'[y].descriptor # kInvalidMqd /\ obj'[y].descriptor = obj'[z].descriptor => y = z
      BY <1>1, <1>2, <1>4 DEF DescriptorsOwned, is_open
    <3> QED
      BY <3>1, <3>2 DEF DescriptorsOwned, is_open
  <2>4. GeometryAgrees'
    BY <1>1, <1>2, <1>4, <2>1 DEF GeometryAgrees, DescriptorsOwned, is_open, TypeOK, Object
  <2> QED
    BY <1>6, <2>2, <2>3, <2>4
<1> QED
  BY <1>7, <1>8

\* Every step keeps the handles in order.
LEMMA HandleStep == HandleInv /\ [Next]_vars => HandleInv'
<1> SUFFICES ASSUME HandleInv, [Next]_vars PROVE HandleInv'
  OBVIOUS
<1> USE QueueAssumption
<1>1. ASSUME NEW o \in Objects, Construct(o) PROVE HandleInv'
  BY <1>1, NewUnopened DEF Construct
<1>2. ASSUME NEW n \in Names, Unlink(n) PROVE HandleInv'
  BY <1>2 DEF Unlink, HandleInv, TypeOK, DeadInv, DescriptorsOwned, GeometryAgrees, is_open
<1>3. CASE UNCHANGED vars
  BY <1>3 DEF vars, HandleInv, TypeOK, DeadInv, DescriptorsOwned, GeometryAgrees, is_open
<1>4. ASSUME NEW o \in Objects, NEW p \in Objects, MoveConstruct(o, p) PROVE HandleInv'
  BY <1>4, MoveStep
<1>5. \A o \in Objects : UnlinkOutcomes(obj[o].name) \subseteq BOOLEAN
  BY DEF UnlinkOutcomes
<1> QED
  BY <1>1, <1>2, <1>3, <1>4, <1>5, OpenStep, CloseStep, MoveStep DEF Next

\* Type correctness, and the invariants of the handles.
THEOREM HandlesInOrder == Spec => []HandleInv
  BY InitHandles, HandleStep, PTL DEF Spec

\* Objects and kernel tables stay well typed, whatever the calls and whichever
\* of them fail.
THEOREM TypeCorrect == Spec => []TypeOK
  BY HandlesInOrder, PTL DEF HandleInv

\* Whatever is opened, moved, closed and destroyed, and whether or not names
\* can be unlinked, no descriptor is leaked, shared or closed twice.
THEOREM NoDescriptorLeak == Spec => []DescriptorsOwned
  BY HandlesInOrder, PTL DEF HandleInv

\* A handle of open_or_create keeps the geometry it asked for.
THEOREM GeometryKept == Spec => []GeometryAgrees
  BY HandlesInOrder, PTL DEF HandleInv

-----------------------------------------------------------------------------
(* Names on which mq_unlink works and which nobody else unlinks.           *)

\* NamesOwned in terms of objects.
NameInv ==
  \A n \in Names \ Troubled :
    /\ link[n] # NoQueue <=> \E o \in Objects : obj[o].owns /\ obj[o].name = n
    /\ \A o, p \in Objects :
         obj[o].owns /\ obj[o].name = n /\ obj[p].owns /\ obj[p].name = n => o = p

\* The two ways of saying it agree.
LEMMA NameInvSuffices == NameInv => NamesOwned
  BY DEF NameInv, NamesOwned, Owners

\* No step leaves a name without its owner or gives it a second one.
LEMMA NameStep ==
  ASSUME HandleInv, NameInv, [Next]_vars
  PROVE  NameInv'
<1> USE QueueAssumption
<1>0. DeadInv /\ TypeOK
  BY DEF HandleInv
\* Objects that own nothing come and go.
<1>1. ASSUME NEW o \in Objects, NEW x \in Object, ~obj[o].owns, ~x.owns,
             obj' = [obj EXCEPT ![o] = x], UNCHANGED link
      PROVE  NameInv'
  <2>1. \A y \in Objects : obj'[y] = IF y = o THEN x ELSE obj[y]
    BY <1>0, <1>1 DEF TypeOK
  <2> QED
    BY <1>1, <2>1 DEF NameInv
<1>2. ASSUME NEW o \in Objects, NEW n \in Names \cup {NoName}, ~obj[o].live,
             obj' = [obj EXCEPT ![o] = Unopened(n)], UNCHANGED link
      PROVE  NameInv'
  <2>1. Unopened(n) \in Object /\ ~Unopened(n).owns
    BY DEF Unopened, Object
  <2> QED
    BY <1>0, <1>1, <1>2, <2>1 DEF DeadInv
<1>3. ASSUME NEW o \in Objects, NEW n \in Names, NEW c \in Configs, NEW d \in Descriptors,
             OpenExisting(o, n, c, d)
      PROVE  NameInv'
  <2> DEFINE x == [live |-> TRUE, descriptor |-> d, name |-> n, owns |-> FALSE, config |-> c]
  <2>1. x \in Object /\ ~x.owns
    BY DEF Object
  <2>2. obj' = [obj EXCEPT ![o] = x] /\ link' = link /\ ~obj[o].owns
    BY <1>0, <1>3 DEF OpenExisting, DeadInv
  <2> HIDE DEF x
  <2> QED
    BY <1>1, <2>1, <2>2
<1>4. ASSUME NEW o \in Objects, NEW n \in Names, open_only(o, n) PROVE NameInv'
  <2>1. PICK d \in FreeDescriptors :
          obj' = [obj EXCEPT ![o] = [live |-> TRUE, descriptor |-> d, name |-> n,
                                     owns |-> FALSE, config |-> NoConfig]]
    BY <1>4 DEF open_only
  <2> DEFINE x == [live |-> TRUE, descriptor |-> d, name |-> n, owns |-> FALSE,
                   config |-> NoConfig]
  <2>2. x \in Object /\ ~x.owns
    BY DEF Object, FreeDescriptors
  <2>3. obj' = [obj EXCEPT ![o] = x] /\ link' = link /\ ~obj[o].owns
    BY <1>0, <1>4, <2>1 DEF open_only, DeadInv
  <2> HIDE DEF x
  <2> QED
    BY <1>1, <2>2, <2>3
\* The creator of a name is its only owner.
<1>5. ASSUME NEW o \in Objects, NEW n \in Names, NEW c \in Configs, NEW d \in Descriptors,
             NEW q \in Queues, Create(o, n, c, d, q)
      PROVE  NameInv'
  <2> DEFINE x == [live |-> TRUE, descriptor |-> d, name |-> n, owns |-> TRUE, config |-> c]
  <2>1. x.owns /\ x.name = n
    OBVIOUS
  <2>2. obj' = [obj EXCEPT ![o] = x] /\ link' = [link EXCEPT ![n] = q]
          /\ link[n] = NoQueue /\ ~obj[o].owns
    BY <1>0, <1>5 DEF Create, DeadInv
  <2> HIDE DEF x
  <2>3. /\ \A y \in Objects : obj'[y] = IF y = o THEN x ELSE obj[y]
        /\ \A k \in Names : link'[k] = IF k = n THEN q ELSE link[k]
    BY <1>0, <2>2 DEF TypeOK
  <2> QED
    BY <2>1, <2>2, <2>3 DEF NameInv
\* An owner that closes removes the name it owns, or keeps a troubled one.
<1>6. ASSUME NEW o \in Objects, NEW x \in Object, NEW u \in UnlinkOutcomes(obj[o].name),
             x.owns => x.name \in Troubled,
             obj' = [obj EXCEPT ![o] = x], CloseInKernel(obj[o], u)
      PROVE  NameInv'
  <2>1. /\ \A y \in Objects : obj'[y] = IF y = o THEN x ELSE obj[y]
        /\ \A k \in Names \ Troubled :
             link'[k] = IF obj[o].owns /\ k = obj[o].name THEN NoQueue ELSE link[k]
    BY <1>0, <1>6 DEF TypeOK, CloseInKernel, UnlinkOutcomes
  <2>2. ASSUME NEW k \in Names \ Troubled
        PROVE  link'[k] # NoQueue <=> \E y \in Objects : obj'[y].owns /\ obj'[y].name = k
    <3>1. CASE obj[o].owns /\ k = obj[o].name
      <4>1. \A y \in Objects : y # o => ~(obj[y].owns /\ obj[y].name = k)
        BY <2>2, <3>1 DEF NameInv
      <4> QED
        BY <1>6, <2>1, <2>2, <3>1, <4>1
    <3>2. CASE ~(obj[o].owns /\ k = obj[o].name)
      <4>1. (\E y \in Objects : obj[y].owns /\ obj[y].name = k)
              <=> (\E y \in Objects : obj'[y].owns /\ obj'[y].name = k)
        BY <1>6, <2>1, <3>2
      <4> QED
        BY <2>1, <2>2, <3>2, <4>1 DEF NameInv
    <3> QED
      BY <3>1, <3>2
  <2>3. \A k \in Names \ Troubled : \A y, z \in Objects :
          obj'[y].owns /\ obj'[y].name = k /\ obj'[z].owns /\ obj'[z].name = k => y = z
    BY <1>6, <2>1 DEF NameInv
  <2> QED
    BY <2>2, <2>3 DEF NameInv
<1>7. ASSUME NEW o \in Objects, NEW u \in UnlinkOutcomes(obj[o].name),
             Close(o, u) \/ Destroy(o, u)
      PROVE  NameInv'
  <2>1. Closed(obj[o], u) \in Object /\ (Closed(obj[o], u).owns => Closed(obj[o], u).name \in Troubled)
    <3>1. obj[o] \in Object
      BY <1>0 DEF TypeOK
    <3> QED
      BY <1>7, <3>1 DEF Closed, Object, mq_close, UnlinkOutcomes
  <2>2. Dead \in Object /\ ~Dead.owns
    BY DEF Dead, Object
  <2>3. CASE Close(o, u)
    <3>1. obj' = [obj EXCEPT ![o] = Closed(obj[o], u)] /\ CloseInKernel(obj[o], u)
      BY <2>3 DEF Close
    <3> QED
      BY <1>6, <2>1, <3>1
  <2>4. CASE Destroy(o, u)
    <3>1. obj' = [obj EXCEPT ![o] = Dead] /\ CloseInKernel(obj[o], u)
      BY <2>4 DEF Destroy
    <3> QED
      BY <1>6, <2>2, <3>1
  <2> QED
    BY <1>7, <2>3, <2>4
\* A move hands ownership from one object to another.
<1>8. ASSUME NEW o \in Objects, NEW p \in Objects, NEW u \in UnlinkOutcomes(obj[o].name),
             MoveConstruct(o, p) \/ MoveAssign(o, p, u)
      PROVE  NameInv'
  <2> DEFINE m == MovedFrom(obj[p])
  <2>1. ~m.owns /\ o # p
    BY <1>0, <1>8 DEF MovedFrom, TypeOK, Object, MoveConstruct, MoveAssign
  <2>2. obj' = [obj EXCEPT ![o] = obj[p], ![p] = m]
    BY <1>8 DEF MoveConstruct, MoveAssign
  <2> HIDE DEF m
  <2>3. \A y \in Objects : obj'[y] = IF y = p THEN m ELSE IF y = o THEN obj[p] ELSE obj[y]
    BY <1>0, <2>2 DEF TypeOK
  <2>4. \A k \in Names \ Troubled :
          link'[k] = IF obj[o].owns /\ k = obj[o].name THEN NoQueue ELSE link[k]
    <3>1. CASE MoveConstruct(o, p)
      BY <1>0, <3>1 DEF MoveConstruct, DeadInv
    <3>2. CASE MoveAssign(o, p, u)
      BY <1>8, <3>2 DEF MoveAssign, CloseInKernel, UnlinkOutcomes
    <3> QED
      BY <1>8, <3>1, <3>2
  <2>5. ASSUME NEW k \in Names \ Troubled
        PROVE  link'[k] # NoQueue <=> \E y \in Objects : obj'[y].owns /\ obj'[y].name = k
    <3>1. CASE obj[o].owns /\ k = obj[o].name
      <4>1. \A y \in Objects : y # o => ~(obj[y].owns /\ obj[y].name = k)
        BY <2>5, <3>1 DEF NameInv
      <4> QED
        BY <2>1, <2>3, <2>4, <2>5, <3>1, <4>1
    <3>2. CASE ~(obj[o].owns /\ k = obj[o].name)
      <4>1. (\E y \in Objects : obj[y].owns /\ obj[y].name = k)
              <=> (\E y \in Objects : obj'[y].owns /\ obj'[y].name = k)
        BY <2>1, <2>3, <3>2
      <4> QED
        BY <2>4, <2>5, <3>2, <4>1 DEF NameInv
    <3> QED
      BY <3>1, <3>2
  <2>6. \A k \in Names \ Troubled : \A y, z \in Objects :
          obj'[y].owns /\ obj'[y].name = k /\ obj'[z].owns /\ obj'[z].name = k => y = z
    BY <2>1, <2>3 DEF NameInv
  <2> QED
    BY <2>5, <2>6 DEF NameInv
<1>9. CASE UNCHANGED vars
  BY <1>9 DEF vars, NameInv
<1>10. ASSUME NEW o \in Objects, NEW n \in Names \cup {NoName}, NEW c \in Configs \cup {NoConfig},
              open_or_create(o, n, c)
       PROVE  NameInv'
  BY <1>2, <1>3, <1>5, <1>10 DEF open_or_create, OpenFails
<1>11. ASSUME NEW o \in Objects, Construct(o) PROVE NameInv'
  BY <1>2, <1>11 DEF Construct
\* Others unlink troubled names only.
<1>12. ASSUME NEW n \in Troubled, Unlink(n) PROVE NameInv'
  <2>1. \A k \in Names \ Troubled : link'[k] = link[k]
    BY <1>0, <1>12 DEF Unlink, TypeOK
  <2> QED
    BY <1>12, <2>1 DEF Unlink, NameInv
<1>13. \A o \in Objects : TRUE \in UnlinkOutcomes(obj[o].name)
  BY DEF UnlinkOutcomes
<1> QED
  BY <1>4, <1>7, <1>8, <1>9, <1>10, <1>11, <1>12, <1>13 DEF Next

\* Where cleaning up works and nobody unlinks behind an owner's back, a queue
\* name exists exactly as long as one object is to unlink it, whatever trouble
\* there is with other names.
THEOREM NamesHaveOneOwner == Spec => []NamesOwned
<1>1. Init => NameInv
  BY DEF Init, NameInv, Dead
<1>2. HandleInv /\ NameInv /\ [Next]_vars => NameInv'
  BY NameStep
<1> QED
  BY <1>1, <1>2, HandlesInOrder, NameInvSuffices, PTL DEF Spec

-----------------------------------------------------------------------------
(* The duty to unlink.                                                     *)

\* An owner of a name that the step leaves alone is still one of its owners.
LEMMA OwnerUntouched ==
  ASSUME NEW n \in Names, NEW x \in Owners(n), obj'[x] = obj[x]
  PROVE  Owners(n)' # {}
  BY DEF Owners

\* A step that builds a new object in a place where none lives changes no owner.
LEMMA NewObjectOwnersStay ==
  ASSUME TypeOK, DeadInv, NEW n \in Names, NEW x \in Owners(n),
         NEW o \in Objects, NEW v, ~obj[o].live, obj' = [obj EXCEPT ![o] = v]
  PROVE  Owners(n)' # {}
<1>1. x \in Objects /\ obj[x].owns
  BY DEF Owners
<1>2. x # o
  BY <1>1 DEF DeadInv, Dead
<1>3. obj'[x] = obj[x]
  BY <1>1, <1>2 DEF TypeOK
<1> QED
  BY <1>3, OwnerUntouched

\* One step: an owner is left unless the name went away, or the destructor or a
\* move assignment dropped an owner it could not clean up after.
LEMMA OwnershipStep ==
  ASSUME HandleInv, Next,
         NEW n \in Names, Owners(n) # {}, link[n] # NoQueue, link'[n] = link[n],
         Owners(n)' = {}
  PROVE  \E o \in Owners(n) : Destroy(o, FALSE) \/ \E p \in Objects : MoveAssign(o, p, FALSE)
<1>0. TypeOK /\ DeadInv
  BY DEF HandleInv
<1> PICK x \in Owners(n) : TRUE
  OBVIOUS
<1>x. x \in Objects /\ obj[x].owns /\ obj[x].name = n
  BY DEF Owners
<1>1. ASSUME NEW o \in Objects, NEW v, ~obj[o].live, obj' = [obj EXCEPT ![o] = v]
      PROVE  FALSE
  BY <1>0, <1>1, NewObjectOwnersStay
<1>2. ASSUME NEW o \in Objects, NEW k \in Names \cup {NoName}, NEW c \in Configs \cup {NoConfig},
             open_or_create(o, k, c)
      PROVE  FALSE
  BY <1>1, <1>2 DEF open_or_create, OpenFails, OpenExisting, Create
<1>3. ASSUME NEW o \in Objects, NEW k \in Names, open_only(o, k)
      PROVE  FALSE
  BY <1>1, <1>3 DEF open_only
<1>4. ASSUME NEW o \in Objects, Construct(o)
      PROVE  FALSE
  BY <1>1, <1>4 DEF Construct
\* A move hands the duty of its source to its target.
<1>5. ASSUME NEW o \in Objects, NEW p \in Objects, o # p, x # o,
             obj' = [obj EXCEPT ![o] = obj[p], ![p] = MovedFrom(obj[p])]
      PROVE  FALSE
  <2>1. CASE x = p
    <3>1. obj'[o] = obj[x]
      BY <1>0, <1>5, <2>1 DEF TypeOK
    <3> QED
      BY <1>5, <1>x, <3>1 DEF Owners
  <2>2. CASE x # p
    <3>1. obj'[x] = obj[x]
      BY <1>0, <1>5, <1>x, <2>2 DEF TypeOK
    <3> QED
      BY <3>1, OwnerUntouched
  <2> QED
    BY <2>1, <2>2
<1>6. ASSUME NEW o \in Objects, NEW p \in Objects, MoveConstruct(o, p)
      PROVE  FALSE
  <2>1. o # p /\ x # o
    BY <1>0, <1>6, <1>x DEF MoveConstruct, DeadInv, Dead
  <2> QED
    BY <1>5, <1>6, <2>1 DEF MoveConstruct
\* What close() does to the name, and to an object that is not an owner of it.
<1>7. ASSUME NEW o \in Objects, CloseInKernel(obj[o], TRUE)
      PROVE  o # x
  BY <1>7, <1>x DEF CloseInKernel
<1>8. ASSUME NEW o \in Objects, NEW u \in BOOLEAN, Close(o, u)
      PROVE  FALSE
  <2>1. CASE x # o
    <3>1. obj'[x] = obj[x]
      BY <1>0, <1>8, <1>x, <2>1 DEF Close, TypeOK
    <3> QED
      BY <3>1, OwnerUntouched
  <2>2. CASE x = o
    <3>1. u = FALSE
      BY <1>7, <1>8, <2>2 DEF Close
    <3>2. obj'[x] = Closed(obj[x], FALSE)
      BY <1>0, <1>8, <1>x, <2>2, <3>1 DEF Close, TypeOK
    <3>3. obj'[x].owns /\ obj'[x].name = n
      BY <1>0, <1>x, <3>2 DEF Closed, TypeOK, Object
    <3> QED
      BY <1>x, <3>3 DEF Owners
  <2> QED
    BY <2>1, <2>2
<1>9. ASSUME NEW o \in Objects, NEW u \in BOOLEAN, Destroy(o, u)
      PROVE  x = o /\ u = FALSE
  <2>1. x = o
    <3> SUFFICES ASSUME x # o PROVE FALSE
      OBVIOUS
    <3>1. obj'[x] = obj[x]
      BY <1>0, <1>9, <1>x DEF Destroy, TypeOK
    <3> QED
      BY <3>1, OwnerUntouched
  <2> QED
    BY <1>7, <1>9, <2>1 DEF Destroy
<1>10. ASSUME NEW o \in Objects, NEW p \in Objects, NEW u \in BOOLEAN, MoveAssign(o, p, u)
       PROVE  x = o /\ u = FALSE
  <2>1. x = o
    BY <1>5, <1>10 DEF MoveAssign
  <2> QED
    BY <1>7, <1>10, <2>1 DEF MoveAssign
<1>11. ASSUME NEW k \in Troubled, Unlink(k)
       PROVE  FALSE
  BY <1>11, <1>x, OwnerUntouched DEF Unlink
<1>12. \A o \in Objects : UnlinkOutcomes(obj[o].name) \subseteq BOOLEAN
  BY DEF UnlinkOutcomes
<1>13. PICK o \in Objects, u \in BOOLEAN : Destroy(o, u) \/ \E p \in Objects : MoveAssign(o, p, u)
  BY <1>2, <1>3, <1>4, <1>6, <1>8, <1>11, <1>12 DEF Next
<1>14. x = o /\ u = FALSE
  BY <1>9, <1>10, <1>13
<1> QED
  BY <1>13, <1>14

\* "Ownership is retained until unlink succeeds": as long as a queue keeps its
\* name, the duty to unlink it passes from object to object, and only the
\* destructor and the move assignment that overwrites the owner can drop it,
\* for any number of objects, names, descriptors and failing unlinks.
THEOREM DutyPassesOn == Spec => OwnershipRetained
<1> DEFINE A == \A n \in Names :
       Owners(n) # {} /\ link[n] # NoQueue /\ link'[n] = link[n] /\ Owners(n)' = {} =>
         \E o \in Owners(n) : Destroy(o, FALSE) \/ \E p \in Objects : MoveAssign(o, p, FALSE)
<1>1. HandleInv /\ [Next]_vars => [A]_vars
  BY OwnershipStep
<1>2. Spec => [][A]_vars
  BY <1>1, HandlesInOrder, PTL DEF Spec
<1> QED
  BY <1>2 DEF OwnershipRetained
=============================================================================
