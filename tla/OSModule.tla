------------------------------ MODULE OSModule ------------------------------
(***************************************************************************)
(* The list of linked modules in src/sdk_port/os/OSModule.c.  Whether a    *)
(* module is linked is told from its links and the head of the list.       *)
(***************************************************************************)
EXTENDS Naturals, Sequences, SequencesExt

CONSTANTS Modules, NoModule

ASSUME ModuleAssumption == NoModule \notin Modules

VARIABLES
  moduleHead, moduleTail,   \* __OSModuleInfoList
  link,                     \* link.prev and link.next of every module
  order                     \* the modules the program has linked, in order

moduleVars == <<moduleHead, moduleTail, link, order>>

ModuleInit ==
  /\ moduleHead = NoModule /\ moduleTail = NoModule
  /\ link = [m \in Modules |-> [prev |-> NoModule, next |-> NoModule]]
  /\ order = <<>>

\* Mutant: a module alone in the list has no links and passes for unlinked.
HasLinks(m) == link[m].prev # NoModule \/ link[m].next # NoModule

IsLinked(m) == moduleHead = m \/ link[m].prev # NoModule \/ link[m].next # NoModule

OSLink(m) ==
  /\ order' = IF m \in ToSet(order) THEN order ELSE Append(order, m)
  /\ IF IsLinked(m) THEN UNCHANGED <<moduleHead, moduleTail, link>>
     ELSE /\ moduleHead' = IF moduleTail = NoModule THEN m ELSE moduleHead
          /\ moduleTail' = m
          /\ link' = [x \in Modules |->
               IF x = m THEN [prev |-> moduleTail, next |-> NoModule]
               ELSE IF x = moduleTail THEN [link[x] EXCEPT !.next = m] ELSE link[x]]

OSUnlink(m) ==
  LET prev == link[m].prev
      next == link[m].next
  IN /\ order' = RemoveFirst(order, m)
     /\ IF ~IsLinked(m) THEN UNCHANGED <<moduleHead, moduleTail, link>>
        ELSE /\ moduleHead' = IF prev = NoModule THEN next ELSE moduleHead
             /\ moduleTail' = IF next = NoModule THEN prev ELSE moduleTail
             /\ link' = [x \in Modules |->
                  IF x = m THEN [prev |-> NoModule, next |-> NoModule]
                  ELSE IF x = prev THEN [link[x] EXCEPT !.next = next]
                  ELSE IF x = next THEN [link[x] EXCEPT !.prev = prev]
                  ELSE link[x]]

ModuleNext == \E m \in Modules : OSLink(m) \/ OSUnlink(m)

ModuleSpec == ModuleInit /\ [][ModuleNext]_moduleVars

-----------------------------------------------------------------------------
Neighbour(s, i) == IF i \in DOMAIN s THEN s[i] ELSE NoModule

\* The list is what the program linked and did not unlink since, each once and in order:
\* both ends and both links of every module agree with it, those of the modules outside
\* are clear, and the test for a linked module is exact, also for one that is alone.
ModulesLinked ==
  /\ moduleHead = Neighbour(order, 1) /\ moduleTail = Neighbour(order, Len(order))
  /\ \A i \in DOMAIN order :
       link[order[i]] = [prev |-> Neighbour(order, i - 1), next |-> Neighbour(order, i + 1)]
  /\ \A m \in Modules : IsLinked(m) <=> m \in ToSet(order)
  /\ \A m \in Modules \ ToSet(order) : link[m] = [prev |-> NoModule, next |-> NoModule]
=============================================================================
