-------------------------------- MODULE Spaces --------------------------------
(***************************************************************************)
(* One organisation: its people, their invitations and its spaces.         *)
(*                                                                         *)
(* A request is two steps, what it reads and checks and what it writes, so *)
(* that requests of two slots overlap.  Only what takes the organisation's *)
(* row lock excludes another.  An acceptance is three steps: it reads its  *)
(* invitation before it waits for the lock and the spaces under it.        *)
(***************************************************************************)
EXTENDS Naturals, FiniteSets, FiniteSetsExt

CONSTANTS
  Owner, Guests,     \* the owner and the other people
  General, Others,   \* the space the organisation is born with, those made later
  Invitations,       \* invitations that can be written
  Desks,             \* slots of requests that administer
  Doors,             \* slots of requests that accept an invitation
  MaxMembers,        \* seats of the plan
  Invited, Chosen,   \* roles and sets of spaces an invitation may carry
  Unused, Closed,    \* an invitation not yet written, and one that admits nobody any more
  Nobody, Resting

\* Roles an invitation may carry, and markers that are no request, invitation or person.
PeopleAssumption ==
  /\ MaxMembers \in Nat \ {0} /\ Owner \notin Guests /\ Invited \subseteq {"member", "admin"}
  /\ Nobody \notin {Owner} \cup Guests /\ \A S \in Chosen : S \subseteq {General} \cup Others
  /\ Desks \cap Doors = {}

People == {Owner} \cup Guests
AllSpaces == {General} \cup Others
Slots == Desks \cup Doors

VARIABLES
  role,       \* person -> role of the active membership, or "none"
  state,      \* space -> "unused", "live", "archived"
  isDefault,  \* spaces marked as the default
  place,      \* space -> person -> "none", "member", "manager"
  invite,     \* invitation -> Unused, Closed, or pending [email, role, spaces]
  request,    \* slot -> what its request has read, or Resting
  excused     \* history: people an administrator has taken out of a space

peopleVars == <<role, state, isDefault, place, invite, request, excused>>

-----------------------------------------------------------------------------
(* What requests read                                                      *)

Active == {p \in People : role[p] # "none"}
Admins == {p \in People : role[p] \in {"owner", "admin"}}
Live == {s \in AllSpaces : state[s] = "live"}
Default == Live \cap isDefault
Managers(s) == {p \in People : place[s][p] = "manager"}

\* _manageable: a live space, for an administrator or one of its managers.
MayManage(s) == s \in Live /\ Active \cap (Admins \cup Managers(s)) # {}

Pending(i) == invite[i] \notin {Unused, Closed}

\* Mutant of OrganizationFree: the row is not locked.
OrganizationUnlocked == TRUE

\* The row lock of the organisation: an acceptance holds it from its seat to its commit.
OrganizationFree == \A d \in Doors : request[d] # Resting => request[d].op # "join"

\* require_seat_available: only people count.
Seated == Cardinality(Active) < MaxMembers

\* require_can_invite: people and what was promised to other addresses.
CanInvite(p) ==
  Cardinality(Active) + Cardinality({i \in Invitations : Pending(i) /\ invite[i].email # p})
    < MaxMembers

Reads(q, asked) ==
  /\ request[q] = Resting
  /\ \E r \in asked : request' = [request EXCEPT ![q] = r]
  /\ UNCHANGED <<role, state, isDefault, place, invite, excused>>

Writing(q, op) == request[q] # Resting /\ request[q].op = op

Done(q) == request' = [request EXCEPT ![q] = Resting]

\* Rows of space members that were removed are no longer there for the requests that read them.
DoneRemoving(q, gone) ==
  request' = [r \in Slots |->
    IF r = q THEN Resting
    ELSE IF request[r] # Resting /\ request[r].op \in {"remove", "rank"}
              /\ <<request[r].space, request[r].who>> \in gone
         THEN [request[r] EXCEPT !.who = Nobody]
         ELSE request[r]]

\* A request is given up: a conflict, or the process stops before the commit.
GivesUp(q) ==
  /\ request[q] # Resting
  /\ Done(q)
  /\ UNCHANGED <<role, state, isDefault, place, invite, excused>>

-----------------------------------------------------------------------------
(* The spaces                                                              *)

\* uq_spaces_org_default refuses a second live default.
CreateSpace(q) ==
  \/ Reads(q, [op : {"create"}, space : {s \in AllSpaces : state[s] = "unused" /\ Admins # {}},
               default : IF Default = {} THEN BOOLEAN ELSE {FALSE}])
  \/ /\ Writing(q, "create")
     /\ LET s == request[q].space IN
          /\ state[s] = "unused"
          /\ request[q].default => Default = {}
          /\ state' = [state EXCEPT ![s] = "live"]
          /\ isDefault' = IF request[q].default THEN isDefault \cup {s} ELSE isDefault
     /\ Done(q)
     /\ UNCHANGED <<role, place, invite, excused>>

Archivable(s) == Admins # {} /\ s \in Live \ isDefault

\* The people of the space, and who is being let into it, lose it.
ArchiveSpace(q) ==
  \/ Reads(q, [op : {"archive"}, space : {s \in AllSpaces : Archivable(s)}])
  \/ /\ Writing(q, "archive")
     /\ LET s == request[q].space IN
          /\ state' = [state EXCEPT ![s] = "archived"]
          /\ excused' = excused \cup {p \in People : place[s][p] # "none"}
               \cup {request[d].who : d \in {e \in Doors :
                        request[e] # Resting /\ request[e].op = "join" /\ s \in request[e].spaces}}
     /\ Done(q)
     /\ UNCHANGED <<role, isDefault, place, invite>>

\* The one that was the default when the request read is unmarked, then this one is marked.
SetDefault(q) ==
  \/ Reads(q, [op : {"default"}, space : {s \in Live \ isDefault : Admins # {}}, old : {Default}])
  \/ /\ Writing(q, "default")
     /\ LET s == request[q].space IN
          /\ s \in Live => Default \subseteq request[q].old
          /\ isDefault' = (isDefault \ request[q].old) \cup {s}
     /\ Done(q)
     /\ UNCHANGED <<role, state, place, invite, excused>>

-----------------------------------------------------------------------------
(* The people of a space                                                   *)

AddMember(q) ==
  \/ Reads(q, [op : {"add"}, space : {s \in AllSpaces : MayManage(s)}, who : Active, role : {"member", "manager"}])
  \/ /\ Writing(q, "add")
     /\ LET s == request[q].space  p == request[q].who IN
          place' = IF place[s][p] = "none" THEN [place EXCEPT ![s][p] = request[q].role]
                                           ELSE place
     /\ Done(q)
     /\ UNCHANGED <<role, state, isDefault, invite, excused>>

KeepOneManager(s, p) == place[s][p] = "manager" => Managers(s) # {p}

RemoveMember(q) ==
  \/ Reads(q, [op : {"remove"}, space : {s \in AllSpaces : MayManage(s)},
               who : {p \in People : \E s \in AllSpaces : place[s][p] # "none"}])
     /\ LET r == request'[q] IN place[r.space][r.who] # "none" /\ KeepOneManager(r.space, r.who)
  \/ /\ Writing(q, "remove")
     /\ LET s == request[q].space  p == request[q].who IN
          IF p = Nobody THEN UNCHANGED <<place, excused>> /\ Done(q)
          ELSE /\ place' = [place EXCEPT ![s][p] = "none"]
               /\ excused' = excused \cup {p}
               /\ DoneRemoving(q, {<<s, p>>})
     /\ UNCHANGED <<role, state, isDefault, invite>>

SetMemberRole(q) ==
  \/ /\ Reads(q, [op : {"rank"}, space : {s \in AllSpaces : MayManage(s)}, who : People,
                  role : {"member", "manager"}])
     /\ LET r == request'[q] IN
          /\ place[r.space][r.who] # "none"
          /\ r.role = "member" => KeepOneManager(r.space, r.who)
  \/ /\ Writing(q, "rank")
     /\ LET s == request[q].space  p == request[q].who IN
          place' = IF p = Nobody THEN place ELSE [place EXCEPT ![s][p] = request[q].role]
     /\ Done(q)
     /\ UNCHANGED <<role, state, isDefault, invite, excused>>

\* An administrator joins a space to read it.
EnterSpace(q) ==
  \/ Reads(q, [op : {"enter"}, space : Live, who : Admins])
  \/ /\ Writing(q, "enter")
     /\ LET s == request[q].space  p == request[q].who IN
          place' = IF place[s][p] = "none" THEN [place EXCEPT ![s][p] = "member"] ELSE place
     /\ Done(q)
     /\ UNCHANGED <<role, state, isDefault, invite, excused>>

-----------------------------------------------------------------------------
(* The people of the organisation                                          *)

\* Under the lock: the seats are counted, a pending invitation of the address is replaced.
CreateInvitation(q) ==
  \/ Reads(q, [op : {"invite"}, who : Guests, role : Invited, spaces : {S \in Chosen : S \subseteq Live}])
  \/ /\ Writing(q, "invite")
     /\ OrganizationFree
     /\ CanInvite(request[q].who)
     /\ \E i \in Invitations :
          /\ invite[i] = Unused
          /\ invite' = [j \in Invitations |->
               IF j = i THEN [email |-> request[q].who, role |-> request[q].role,
                              spaces |-> request[q].spaces]
               ELSE IF Pending(j) /\ invite[j].email = request[q].who THEN Closed ELSE invite[j]]
     /\ Done(q)
     /\ UNCHANGED <<role, state, isDefault, place, excused>>

RevokeInvitation(q) ==
  \/ Reads(q, [op : {"revoke"}, inv : {i \in Invitations : Pending(i)}])
  \/ /\ Writing(q, "revoke")
     /\ invite' = [invite EXCEPT ![request[q].inv] = Closed]
     /\ Done(q)
     /\ UNCHANGED <<role, state, isDefault, place, excused>>

\* It expires: it admits nobody and counts no more, as one revoked.
Expire(i) ==
  /\ Pending(i)
  /\ invite' = [invite EXCEPT ![i] = Closed]
  /\ UNCHANGED <<role, state, isDefault, place, request, excused>>

\* enroll_member: the spaces chosen that are live, or else the default.
Targets(chosen) == IF chosen \cap Live # {} THEN chosen \cap Live ELSE Default

AcceptReads(d) ==
  Reads(d, {[op |-> "accept", inv |-> i, who |-> invite[i].email, role |-> invite[i].role,
             spaces |-> invite[i].spaces] : i \in {j \in Invitations : Pending(j)}})

\* uq_memberships_active_org_user refuses a person who is already in.
AcceptEnrolls(d) ==
  /\ Writing(d, "accept")
  /\ OrganizationFree
  /\ Seated
  /\ role[request[d].who] = "none"
  /\ request' = [request EXCEPT ![d].op = "join", ![d].spaces = Targets(request[d].spaces)]
  /\ UNCHANGED <<role, state, isDefault, place, invite, excused>>

AcceptCommits(d) ==
  /\ Writing(d, "join")
  /\ LET r == request[d] IN
       /\ role' = [role EXCEPT ![r.who] = r.role]
       /\ invite' = [invite EXCEPT ![r.inv] = Closed]
       /\ place' = [s \in AllSpaces |->
            IF s \in r.spaces /\ place[s][r.who] = "none" THEN [place[s] EXCEPT ![r.who] = "member"]
                                                          ELSE place[s]]
       /\ excused' = IF r.spaces \cap Live = {} THEN excused ELSE excused \ {r.who}
  /\ Done(d)
  /\ UNCHANGED <<state, isDefault>>

ChangeMembershipRole(q) ==
  \/ Reads(q, [op : {"promote"}, who : Active \ {Owner}, role : {"admin", "member"}])
  \/ /\ Writing(q, "promote")
     /\ LET p == request[q].who IN
          role' = IF role[p] = "none" THEN role ELSE [role EXCEPT ![p] = request[q].role]
     /\ Done(q)
     /\ UNCHANGED <<state, isDefault, place, invite, excused>>

\* deactivate_member takes the person out of every space, the last manager included.
DeactivateMembership(q) ==
  \/ Reads(q, [op : {"deactivate"}, who : Active \ {Owner}])
  \/ /\ Writing(q, "deactivate")
     /\ LET p == request[q].who IN
          /\ role' = [role EXCEPT ![p] = "none"]
          /\ place' = [s \in AllSpaces |-> [place[s] EXCEPT ![p] = "none"]]
          /\ DoneRemoving(q, AllSpaces \X {p})
     /\ UNCHANGED <<state, isDefault, invite, excused>>

-----------------------------------------------------------------------------

PeopleInit ==
  /\ role = [p \in People |-> IF p = Owner THEN "owner" ELSE "none"]
  /\ state = [s \in AllSpaces |-> IF s = General THEN "live" ELSE "unused"]
  /\ isDefault = {General}
  /\ place = [s \in AllSpaces |-> [p \in People |->
                IF s = General /\ p = Owner THEN "manager" ELSE "none"]]
  /\ invite = [i \in Invitations |-> Unused]
  /\ request = [q \in Slots |-> Resting]
  /\ excused = {}

PeopleNext ==
  \/ \E q \in Desks :
       \/ CreateSpace(q) \/ ArchiveSpace(q) \/ SetDefault(q)
       \/ AddMember(q) \/ RemoveMember(q) \/ SetMemberRole(q) \/ EnterSpace(q)
       \/ CreateInvitation(q) \/ RevokeInvitation(q)
       \/ ChangeMembershipRole(q) \/ DeactivateMembership(q)
  \/ \E d \in Doors : AcceptReads(d) \/ AcceptEnrolls(d) \/ AcceptCommits(d)
  \/ \E q \in Slots : GivesUp(q)
  \/ \E i \in Invitations : Expire(i)

PeopleSpec == PeopleInit /\ [][PeopleNext]_peopleVars

-----------------------------------------------------------------------------
(* Properties                                                              *)

\* The seats of the plan are never exceeded, though two people accept at once and each
\* acceptance read its invitation before the other was in.
SeatsBounded == Cardinality(Active) <= MaxMembers

\* The organisation always has one live default space, where people and folders without a
\* choice go.
DefaultKept == Cardinality(Default) = 1

\* A person of the organisation is in a live space, unless an administrator has taken the
\* person out of one or archived it, be it while the person was being let in.
Placed == \A p \in Active : p \in excused \/ \E s \in Live : place[s][p] # "none"

\* The plan's seats, the default space and everybody's place hold together.
PeoplePlaced == SeatsBounded /\ DefaultKept /\ Placed
=============================================================================
