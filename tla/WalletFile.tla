----------------------------- MODULE WalletFile -----------------------------
(***************************************************************************)
(* The file a wallet is kept in, between all that reads and writes it:     *)
(* the goroutines that hold a *Wallet, change it and save it, however long *)
(* they run; the dialogues that create, open and restore a wallet and that *)
(* change its password; the command that backs it up; and the end of the   *)
(* program at any moment.                                                  *)
(*                                                                         *)
(* Opening makes a new Wallet from the file, with a mutex and a password   *)
(* of its own; those who hold an older one keep it. The file is written in *)
(* place: it is emptied first (os.WriteFile, os.Create), then filled.      *)
(***************************************************************************)
EXTENDS Naturals, Sequences

CONSTANTS
  Workers,    \* goroutines
  Changes,    \* what may be changed in a wallet
  Passwords,
  NoOne,      \* holds a mutex nobody holds
  MaxWallets, \* bound: Wallets made in memory
  MaxFails    \* bound: ends of the program and writes that fail

ASSUME WalletBounds == {MaxWallets, MaxFails} \subseteq Nat /\ NoOne \notin Workers

VARIABLES
  file,     \* the wallet file
  backup,   \* the last backup
  mem,      \* the Wallets made in memory so far, the ones let go included
  current,  \* cmn.CurrentWallet, 0 for nil
  proc,     \* the goroutines
  written,  \* the changes that have made it to the file
  chosen,   \* the password the user last chose, once it is in the file
  excuses,  \* what happened that may have lost something
  fails

vars == <<file, backup, mem, current, proc, written, chosen, excuses, fails>>

Contents == [data : SUBSET Changes, pass : Passwords]
NoFile   == [there |-> FALSE, whole |-> FALSE,
             content |-> [data |-> {}, pass |-> CHOOSE p \in Passwords : TRUE]]
Torn     == [NoFile EXCEPT !.there = TRUE]
Whole(c) == [there |-> TRUE, whole |-> TRUE, content |-> c]

Idle == [pc |-> "idle", op |-> "none", w |-> 0, change |-> {}, pass |-> NoFile.content.pass,
         buf |-> NoFile.content]

Excuses == {"stale", "torn", "untold", "overtaken"}

TypeOK ==
  /\ {file, backup} \subseteq [there : BOOLEAN, whole : BOOLEAN, content : Contents]
  /\ file.whole => file.there
  /\ current \in 0..Len(mem)
  /\ \A i \in DOMAIN mem :
       /\ mem[i].data \in SUBSET Changes /\ mem[i].pass \in Passwords
       /\ mem[i].holder # NoOne => proc[mem[i].holder].w = i
  /\ \A p \in Workers : proc[p].w \in 0..Len(mem)
  /\ written \subseteq Changes /\ chosen \in Passwords /\ excuses \subseteq Excuses

(***************************************************************************)
(* Goroutines and Wallets.                                                 *)
(***************************************************************************)
At(p, pc) == proc[p].pc = pc

Step(p, pc) == proc' = [proc EXCEPT ![p].pc = pc]

Ends(p) == proc' = [proc EXCEPT ![p] = Idle]

Wallet(c) == [data |-> c.data, pass |-> c.pass, holder |-> NoOne, stale |-> FALSE]

Free(i) == mem[i].holder = NoOne

Writing == {p \in Workers : proc[p].pc \in {"write", "restoring"}}

\* Whoever has read the file before somebody else writes it no longer knows it.
Outdated(m, i) == [j \in DOMAIN m |-> [m[j] EXCEPT !.stale = @ \/ j # i]]

(***************************************************************************)
(* Saving. w.Save() takes the password of the Wallet and then waits for    *)
(* the mutex (SaveToFile); a method that has the mutex calls _locked_Save. *)
(***************************************************************************)
Begin(p) ==
  /\ At(p, "idle")
  /\ current # 0
  /\ proc' = [proc EXCEPT ![p] = [Idle EXCEPT !.pc = "work", !.op = "save", !.w = current]]
  /\ UNCHANGED <<file, backup, mem, current, written, chosen, excuses, fails>>

\* Variant: the change takes the place of what was there.
ChangeAnew(p, c) ==
  /\ At(p, "work")
  /\ \A i \in DOMAIN mem : c \notin mem[i].data
  /\ \A q \in Workers : c \notin proc[q].change
  /\ mem' = [mem EXCEPT ![proc[p].w].data = {c}]
  /\ proc' = [proc EXCEPT ![p].pc = "save", ![p].change = {c}]
  /\ UNCHANGED <<file, backup, current, written, chosen, excuses, fails>>

Change(p, c) ==
  /\ At(p, "work")
  /\ \A i \in DOMAIN mem : c \notin mem[i].data
  /\ \A q \in Workers : c \notin proc[q].change
  /\ mem' = [mem EXCEPT ![proc[p].w].data = @ \cup {c}]
  /\ proc' = [proc EXCEPT ![p].pc = "save", ![p].change = {c}]
  /\ UNCHANGED <<file, backup, current, written, chosen, excuses, fails>>

Save(p) ==
  /\ At(p, "save")
  /\ proc' = [proc EXCEPT ![p].pc = "lock", ![p].pass = mem[proc[p].w].pass]
  /\ UNCHANGED <<file, backup, mem, current, written, chosen, excuses, fails>>

\* Variant: the mutex is not waited for.
SaveToFileUnlocked(p) ==
  /\ At(p, "lock")
  /\ mem' = [mem EXCEPT ![proc[p].w].holder = p]
  /\ Step(p, "marshal")
  /\ UNCHANGED <<file, backup, current, written, chosen, excuses, fails>>

SaveToFile(p) ==
  /\ At(p, "lock")
  /\ Free(proc[p].w)
  /\ mem' = [mem EXCEPT ![proc[p].w].holder = p]
  /\ Step(p, "marshal")
  /\ UNCHANGED <<file, backup, current, written, chosen, excuses, fails>>

\* A method that changes the wallet with the mutex held.
LockedChange(p, c) ==
  /\ At(p, "work")
  /\ Free(proc[p].w)
  /\ \A i \in DOMAIN mem : c \notin mem[i].data
  /\ \A q \in Workers : c \notin proc[q].change
  /\ mem' = [mem EXCEPT ![proc[p].w].holder = p, ![proc[p].w].data = @ \cup {c}]
  /\ proc' = [proc EXCEPT ![p].pc = "marshal", ![p].change = {c},
                          ![p].pass = mem[proc[p].w].pass]
  /\ UNCHANGED <<file, backup, current, written, chosen, excuses, fails>>

ChangePassword(p, new) ==
  /\ At(p, "idle")
  /\ current # 0
  /\ Free(current)
  /\ new # mem[current].pass
  /\ mem' = [mem EXCEPT ![current].holder = p, ![current].pass = new]
  /\ proc' = [proc EXCEPT ![p] = [Idle EXCEPT !.pc = "marshal", !.op = "password",
                                              !.w = current, !.pass = new]]
  /\ UNCHANGED <<file, backup, current, written, chosen, excuses, fails>>

\* The wallet is turned into bytes, then the file is emptied.
Truncate(p) ==
  /\ At(p, "marshal")
  /\ file' = Torn
  /\ proc' = [proc EXCEPT ![p].pc = "write",
                ![p].buf = [data |-> mem[proc[p].w].data, pass |-> proc[p].pass]]
  /\ UNCHANGED <<backup, mem, current, written, chosen, excuses, fails>>

Chooses(p) == proc[p].op \in {"password", "create"}

\* Two who write at once may leave a mixture.
Write(p) ==
  /\ At(p, "write")
  /\ file' \in {Whole(proc[p].buf)} \cup (IF Writing = {p} THEN {} ELSE {Torn})
  /\ chosen' = IF Chooses(p) THEN proc[p].pass ELSE chosen
  /\ LET w == mem[proc[p].w]
     IN excuses' =
          {e \in excuses : e = "stale" \/ (e # "torn" /\ proc[p].pass # chosen')}
            \cup (IF w.stale THEN {"stale"} ELSE {})
            \cup (IF file'.whole THEN {} ELSE {"torn"})
            \cup (IF proc[p].pass # w.pass THEN {"overtaken"} ELSE {})
  /\ mem' = Outdated(mem, proc[p].w)
  /\ written' = written \cup (IF file'.whole THEN proc[p].buf.data ELSE {})
  /\ Step(p, "saved")
  /\ UNCHANGED <<backup, current, fails>>

Saved(p) ==
  /\ At(p, "saved")
  /\ mem' = [mem EXCEPT ![proc[p].w].holder = NoOne]
  /\ IF proc[p].op = "open" THEN Step(p, "current") ELSE Ends(p)
  /\ UNCHANGED <<file, backup, current, written, chosen, excuses, fails>>

\* The file cannot be opened, or not be filled: the error goes to the user, but for that of
\* the audit, with which the wallet is opened all the same.
Failed(p) ==
  /\ proc[p].pc \in {"marshal", "write"}
  /\ fails < MaxFails
  /\ fails' = fails + 1
  /\ excuses' = excuses \cup (IF At(p, "write") THEN {"torn"} ELSE {})
                        \cup (IF proc[p].op = "password" THEN {"untold"} ELSE {})
  /\ IF proc[p].op = "open" THEN Step(p, "current") /\ UNCHANGED mem
     ELSE Ends(p) /\ mem' = [mem EXCEPT ![proc[p].w].holder = NoOne]
  /\ UNCHANGED <<file, backup, current, written, chosen>>

(***************************************************************************)
(* Opening, in a goroutine of its own. The audit may find something to add *)
(* to the wallet and saves it before anybody else has it.                  *)
(***************************************************************************)
Create(p, pass) ==
  /\ At(p, "idle")
  /\ ~file.there
  /\ Len(mem) < MaxWallets
  /\ mem' = Append(mem, [Wallet([data |-> {}, pass |-> pass]) EXCEPT !.holder = p])
  /\ proc' = [proc EXCEPT ![p] = [Idle EXCEPT !.pc = "marshal", !.op = "create",
                                              !.w = Len(mem) + 1, !.pass = pass]]
  /\ UNCHANGED <<file, backup, current, written, chosen, excuses, fails>>

\* Variant: the password is not checked.
OpenFromFileAny(f, pass) == f.whole

OpenFromFile(f, pass) == f.whole /\ f.content.pass = pass

Open(p, pass) ==
  /\ At(p, "idle")
  /\ OpenFromFile(file, pass)
  /\ Len(mem) < MaxWallets
  /\ mem' = Append(mem, [Wallet([file.content EXCEPT !.pass = pass]) EXCEPT !.holder = p])
  /\ \E eddited \in BOOLEAN :
       proc' = [proc EXCEPT ![p] = [Idle EXCEPT !.pc = IF eddited THEN "marshal" ELSE "current",
                                                !.op = "open", !.w = Len(mem) + 1,
                                                !.pass = pass]]
  /\ UNCHANGED <<file, backup, current, written, chosen, excuses, fails>>

SetCurrent(p) ==
  /\ At(p, "current")
  /\ current' = proc[p].w
  /\ mem' = [mem EXCEPT ![proc[p].w].holder = NoOne]
  /\ Ends(p)
  /\ UNCHANGED <<file, backup, written, chosen, excuses, fails>>

Close ==
  /\ current # 0
  /\ current' = 0
  /\ UNCHANGED <<file, backup, mem, proc, written, chosen, excuses, fails>>

(***************************************************************************)
(* Backing up and restoring, without any mutex. Restoring asks first: the  *)
(* wallet was closed when it asked.                                        *)
(***************************************************************************)
Backup(p) ==
  /\ At(p, "idle")
  /\ current # 0
  /\ file.there
  /\ backup' = Torn
  /\ proc' = [proc EXCEPT ![p] = [Idle EXCEPT !.pc = "copy", !.op = "backup"]]
  /\ UNCHANGED <<file, mem, current, written, chosen, excuses, fails>>

Copy(p) ==
  /\ At(p, "copy")
  /\ backup' = file
  /\ Ends(p)
  /\ UNCHANGED <<file, mem, current, written, chosen, excuses, fails>>

DlgWalletRestore(p, pass) ==
  /\ At(p, "idle")
  /\ current = 0
  /\ OpenFromFile(backup, pass)
  /\ proc' = [proc EXCEPT ![p] = [Idle EXCEPT !.pc = "confirm", !.op = "restore"]]
  /\ UNCHANGED <<file, backup, mem, current, written, chosen, excuses, fails>>

RestoreCreate(p) ==
  /\ At(p, "confirm")
  /\ file' = Torn
  /\ Step(p, "restoring")
  /\ UNCHANGED <<backup, mem, current, written, chosen, excuses, fails>>

RestoreCopy(p) ==
  /\ At(p, "restoring")
  /\ file' \in {backup} \cup (IF Writing = {p} THEN {} ELSE {Torn})
  /\ excuses' = IF file'.whole THEN excuses \cap {"stale"} ELSE excuses \cup {"torn"}
  /\ written' = backup.content.data
  /\ chosen' = backup.content.pass
  /\ mem' = Outdated(mem, 0)
  /\ Ends(p)
  /\ UNCHANGED <<backup, current, fails>>

\* The copy is not written to its end. The dialogue that restores stays on the screen.
CopyFails(p) ==
  /\ proc[p].pc \in {"copy", "restoring"}
  /\ fails < MaxFails
  /\ fails' = fails + 1
  /\ IF At(p, "copy") THEN Ends(p) ELSE Step(p, "confirm")
  /\ excuses' = excuses \cup (IF At(p, "copy") THEN {} ELSE {"torn"})
  /\ UNCHANGED <<file, backup, mem, current, written, chosen>>

(***************************************************************************)
(* The end of the program, at any moment; it is started again with nothing *)
(* open.                                                                   *)
(***************************************************************************)
Crash ==
  /\ fails < MaxFails
  /\ fails' = fails + 1
  /\ mem' = <<>>
  /\ current' = 0
  /\ proc' = [p \in Workers |-> Idle]
  /\ excuses' = excuses \cup (IF file.there /\ ~file.whole THEN {"torn"} ELSE {})
  /\ UNCHANGED <<file, backup, written, chosen>>

Init ==
  /\ chosen \in Passwords
  /\ file \in {NoFile, Whole([data |-> {}, pass |-> chosen])}
  /\ backup = NoFile
  /\ mem = <<>>
  /\ current = 0
  /\ proc = [p \in Workers |-> Idle]
  /\ written = {}
  /\ excuses = {}
  /\ fails = 0

Next ==
  \/ \E p \in Workers :
       \/ Begin(p) \/ Save(p) \/ SaveToFile(p) \/ Truncate(p) \/ Write(p)
       \/ Saved(p) \/ Failed(p) \/ SetCurrent(p)
       \/ Backup(p) \/ Copy(p) \/ RestoreCreate(p) \/ RestoreCopy(p) \/ CopyFails(p)
       \/ \E c \in Changes : Change(p, c) \/ LockedChange(p, c)
       \/ \E pass \in Passwords :
            \/ ChangePassword(p, pass) \/ Create(p, pass) \/ Open(p, pass)
            \/ DlgWalletRestore(p, pass)
  \/ Close \/ Crash

Spec == Init /\ [][Next]_vars

(***************************************************************************)
(* Properties.                                                             *)
(***************************************************************************)
AtRest == file.there /\ Writing = {}

(* Whatever goroutines save at the same time, a change that has made it to *)
(* the file is there from then on, and the file is whole: unless           *)
(* the program ended or a write failed while the file was being written,   *)
(* or one saved that still held a Wallet from before the file was written  *)
(* by another.                                                             *)
WrittenStays ==
  AtRest /\ excuses \cap {"stale", "torn"} = {} => file.whole /\ written \subseteq file.content.data

(* The file opens with the password the user last chose, but for a change  *)
(* that failed, which the next save makes come true, and a save that had   *)
(* taken the old password before it waited for the mutex.                  *)
PasswordIsAsTold == AtRest /\ excuses = {} => file.content.pass = chosen

(* The Wallet everybody uses has all that was ever saved, unless the file  *)
(* was written by another since it was read.                               *)
CurrentHasAll ==
  current # 0 /\ ~mem[current].stale /\ excuses \cap {"stale", "torn"} = {}
    => written \subseteq mem[current].data
=============================================================================
