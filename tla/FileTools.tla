----------------------------- MODULE FileTools -----------------------------
(***************************************************************************)
(* The tools that change files (packages/core/src/tool/edit.ts, write.ts   *)
(* and apply-patch.ts, packages/core/src/file-mutation.ts), with the       *)
(* permissions they ask for and the mutex that serializes their writes.    *)
(*                                                                         *)
(* A call asserts its permission, reads the files it updates without a     *)
(* lock, then applies its changes one by one, each under the lock of its   *)
(* file: an update compares the file with what it was computed from, and   *)
(* writes.  A write truncates the file and fills it again.                 *)
(*                                                                         *)
(* A file is the set of the changes it holds, or missing, or cut short by  *)
(* a write in progress.  Writes do not fail, the process does not die, and *)
(* programs that take no lock are left out.                                *)
(*                                                                         *)
(* Each Location builds its own tools, with a mutex and a permission       *)
(* service of their own (location-services.ts), and two Locations reach    *)
(* one file by an external path or a nested directory, under one canonical *)
(* name: the mutex of a Location is the part of KeyedMutex with its keys.  *)
(* Requests are the calls of one Location; those of others have been       *)
(* granted their permission by a service that shares nothing with this one *)
(* but the table of saved rules.                                           *)
(***************************************************************************)
EXTENDS KeyedMutex, Permissions, Sequences

CONSTANTS
    Files,
    Locations,
    LocationOf, \* the Location of each call
    Plan,       \* the changes of each call: its kind and its file
    Initially   \* what the files are before anything runs

Kinds == {"update", "overwrite", "create", "delete"}

(* A file: whole, with the changes it holds, cut short, or missing.        *)
Missing == [is |-> "missing", of |-> {}]

Torn == [is |-> "torn", of |-> {}]

Holding(changes) == [is |-> "whole", of |-> changes]

Contents == [is : {"missing", "torn", "whole"}, of : SUBSET Fibers]

ASSUME CallsAre ==
    /\ Requests \subseteq Fibers /\ Keys = Locations \X Files
    /\ LocationOf \in [Fibers -> Locations]
    /\ \A c \in Requests, d \in Fibers : LocationOf[c] = LocationOf[d] <=> d \in Requests
    /\ \A c \in Fibers : /\ Plan[c] \in Seq([kind : Kinds, file : Files])
                         /\ Plan[c] # <<>>
    /\ Initially \in [Files -> {Missing, Holding({})}]

VARIABLES
    content,    \* the files
    call,       \* where each call is in its plan, with what it has read
    lost,       \* history: the updates, <<call, its change>>, that dropped a
                \* change of another call
    crossed     \* history: the changes whose file a call of another Location
                \* touched after they had compared it

fileVars == <<content, call, lost, crossed>>
toolVars == <<mutexVars, permVars, fileVars>>

FileTypeOK ==
    /\ MutexTypeOK /\ PermTypeOK
    /\ content \in [Files -> Contents]
    /\ call \in [Fibers -> [at : {"prepares", "applies", "locking", "compared",
                                  "writing", "written", "over"},
                            i : Nat, read : Seq(Contents)]]
    /\ \A c \in Fibers : call[c].i \in 1 .. Len(Plan[c])
    /\ lost \in SUBSET (Fibers \X Nat) /\ crossed \in SUBSET (Fibers \X Nat)

FileInit ==
    /\ MutexInit /\ PermInit
    /\ content = Initially
    /\ call = [c \in Fibers |-> [at |-> "prepares", i |-> 1, read |-> <<>>]]
    /\ lost = {} /\ crossed = {}

-----------------------------------------------------------------------------
Change(c) == Plan[c][call[c].i]

File(c) == Change(c).file

Lock(c) == <<LocationOf[c], File(c)>>

Allowed(c) == c \in Requests => ask[c].at = "allowed"

CallGoes(c, at) == call' = [call EXCEPT ![c].at = at]

CallOver(c) == call' = [call EXCEPT ![c] = [at |-> "over", i |-> 1, read |-> <<>>]]

(* One change is prepared: update and delete read the file, and fail if    *)
(* there is none; a file cut short may lack what an update looks for.      *)
Prepared(c, read) ==
    LET done == call[c].i = Len(Plan[c]) IN
    call' = [call EXCEPT ![c] =
               [at |-> IF done THEN "applies" ELSE "prepares",
                i |-> IF done THEN 1 ELSE @.i + 1,
                read |-> Append(@.read, read)]]

Prepares(c) ==
    /\ Allowed(c) /\ call[c].at = "prepares"
    /\ \/ /\ Change(c).kind = "update"
          /\ \/ content[File(c)].is # "missing" /\ Prepared(c, content[File(c)])
             \/ content[File(c)].is # "whole" /\ CallOver(c)
       \/ /\ Change(c).kind = "delete"
          /\ IF content[File(c)].is = "missing" THEN CallOver(c)
             ELSE Prepared(c, Missing)
       \/ Change(c).kind \in {"overwrite", "create"} /\ Prepared(c, Missing)
    /\ UNCHANGED <<mutexVars, permVars, content, lost, crossed>>

(* Each change is applied under the lock of its file.                      *)
Applies(c) ==
    /\ call[c].at = "applies"
    /\ withLock(c, Lock(c))
    /\ CallGoes(c, "locking")
    /\ UNCHANGED <<permVars, content, lost, crossed>>

Locked(c) ==
    /\ Takes(c)
    /\ UNCHANGED <<permVars, fileVars>>

Ends(c) ==
    /\ Leaves(c)
    /\ CallOver(c)
    /\ UNCHANGED <<permVars, content, lost, crossed>>

(* A call can be interrupted until it has its lock, which it then leaves.  *)
Interrupted(c) ==
    \/ call[c].at = "locking" /\ Ends(c)
    \/ /\ Allowed(c) /\ call[c].at \in {"prepares", "applies"}
       /\ CallOver(c)
       /\ UNCHANGED <<mutexVars, permVars, content, lost, crossed>>

(* An update compares the bytes before it opens the file; a create finds   *)
(* out as it opens it (wx).                                                *)
(* Mutant: an update looks whether the file exists.                        *)
PassesIfThere(c) ==
    CASE Change(c).kind = "update" -> content[File(c)].is # "missing"
      [] Change(c).kind = "create" -> content[File(c)].is = "missing"
      [] OTHER -> TRUE

Passing(c) ==
    CASE Change(c).kind = "update" -> content[File(c)] = call[c].read[call[c].i]
      [] Change(c).kind = "create" -> content[File(c)].is = "missing"
      [] OTHER -> TRUE

Has(c) == call[c].at = "locking" /\ place[c].at = "holding"

Compares(c) ==
    /\ Has(c) /\ Change(c).kind = "update" /\ Passing(c)
    /\ CallGoes(c, "compared")
    /\ UNCHANGED <<mutexVars, permVars, content, lost, crossed>>

Fails(c) == Has(c) /\ ~Passing(c) /\ Ends(c)

(* The file is opened and cut, or removed.                                 *)
Written(c) ==
    IF Change(c).kind = "update"
    THEN Holding(call[c].read[call[c].i].of \cup {c})
    ELSE Holding({c})

Drops(c) == ~(content[File(c)].of \subseteq Written(c).of)

(* What that does to the updates of other Locations.                       *)
Crossed(c) == <<c, call[c].i>> \in crossed

Crosses(c) ==
    crossed' = crossed \cup
        {<<d, call[d].i>> : d \in
           {e \in Fibers : /\ call[e].at \in {"compared", "writing"}
                          /\ File(e) = File(c) /\ LocationOf[e] # LocationOf[c]}}

Loses(c) ==
    lost' = IF Change(c).kind = "update" /\ Drops(c) THEN lost \cup {<<c, call[c].i>>} ELSE lost

Opens(c) ==
    /\ \/ call[c].at = "compared"
       \/ Has(c) /\ Change(c).kind # "update" /\ Passing(c)
    /\ content' = [content EXCEPT ![File(c)] =
                     IF Change(c).kind = "delete" THEN Missing ELSE Torn]
    /\ Loses(c) /\ Crosses(c)
    /\ CallGoes(c, IF Change(c).kind = "delete" THEN "written" ELSE "writing")
    /\ UNCHANGED <<mutexVars, permVars>>

(* Two Locations that fill a file at once may leave a mix of both.         *)
Fills(c) ==
    /\ call[c].at = "writing"
    /\ \E to \in {Written(c)} \cup (IF Crossed(c) THEN {Torn} ELSE {}) :
          content' = [content EXCEPT ![File(c)] = to]
    /\ Loses(c) /\ Crosses(c)
    /\ CallGoes(c, "written")
    /\ UNCHANGED <<mutexVars, permVars>>

Unlocks(c) ==
    /\ call[c].at = "written"
    /\ Leaves(c)
    /\ IF call[c].i = Len(Plan[c]) THEN CallOver(c)
       ELSE call' = [call EXCEPT ![c].at = "applies", ![c].i = @ + 1]
    /\ UNCHANGED <<permVars, content, lost, crossed>>

-----------------------------------------------------------------------------
FileNext(c) ==
    \/ Prepares(c) \/ Applies(c) \/ Locked(c) \/ Interrupted(c) \/ Compares(c)
    \/ Fails(c) \/ Opens(c) \/ Fills(c) \/ Unlocks(c)

ToolNext ==
    \/ PermNext /\ UNCHANGED <<mutexVars, fileVars>>
    \/ \E c \in Fibers : FileNext(c)

ToolSpec == FileInit /\ [][ToolNext]_toolVars

-----------------------------------------------------------------------------
(* Properties.                                                             *)

(* "cooperating Spinosa mutations do not overwrite changes made from the   *)
(* same stale content" (file-mutation.ts:70): an update drops no change of *)
(* another call, whether that was there when it read the file, came before *)
(* its lock or was half written, unless a call of another Location changed *)
(* the file between its comparison and the end of its own write.           *)
UpdatesLoseNothing == lost \subseteq crossed

(* A file is cut short only while a call that holds a lock on it fills it, *)
(* but for a mix that calls of two Locations left.                         *)
TornIsBeingFilled ==
    \A f \in Files : content[f].is = "torn" =>
        \/ \E c \in Fibers : Holds(c, <<LocationOf[c], f>>) /\ call[c].at = "writing"
        \/ \E c \in Fibers : \E i \in 1 .. Len(Plan[c]) :
              <<c, i>> \in crossed /\ Plan[c][i].file = f
=============================================================================
