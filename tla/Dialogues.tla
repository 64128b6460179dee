------------------------------ MODULE Dialogues ------------------------------
(***************************************************************************)
(* The signers and the addresses of a wallet and the commands and          *)
(* dialogues that change them: command/signer.go, command/address.go,      *)
(* ui/dlg_sigher_add.go, ui/dlg_signer_edit.go, ui/dlg_address_*.go and    *)
(* ui/dlg_confirm.go over Popups. A command looks at the lists, remembers  *)
(* an index or a pointer, and asks for a popup; the button OK changes the  *)
(* lists later, with no lock, and saves the wallet.                        *)
(***************************************************************************)
EXTENDS Popups

CONSTANTS
  Names,      \* of signers and addresses, in alphabetical order
  Addresses,
  NoName,
  DialogueWorlds

Signer  == [name : Names, copies : Seq(Names)]
Address == [address : Addresses, name : Names, signer : Names \cup {NoName}]

ASSUME NamesAssumption == Names \subseteq Nat /\ NoName \notin Names

DialogueKinds ==
  {"signer add", "signer remove", "signer promote", "signer edit", "address add",
   "address watch", "address remove", "address edit", "other", "contract", "password"}

Moves == [asks : Seq(DialogueKinds), fails : Nat, sorts : Nat]

\* A wallet that has no address twice, and the signer of each.
IsWorld(w) ==
  /\ [asks |-> w.asks, fails |-> w.fails, sorts |-> w.sorts] \in Moves
  /\ w.signer \in Seq(Signer) /\ w.address \in Seq(Address)
  /\ \A i, j \in DOMAIN w.address : w.address[i].address = w.address[j].address => i = j
  /\ \A i \in DOMAIN w.address :
       w.address[i].signer \in {NoName} \cup {w.signer[o].name : o \in DOMAIN w.signer}

ASSUME WorldsAssumption == \A w \in DialogueWorlds : IsWorld(w)

VARIABLES
  signers,    \* w.Signers: pointers
  addresses,  \* w.Addresses: pointers
  signer,     \* the signers pointed to
  address,    \* the addresses pointed to
  dlg,        \* what each popup's dialogue remembers
  may,        \* the dialogues a command may still open, and how many saves may fail
  renamed     \* history: a signer was renamed or removed

lists == <<signers, addresses, signer, address>>
dialogueVars == <<popupVars, lists, dlg, may, renamed>>

Free == [kind |-> "none"]

DialogueInit ==
  \E w \in DialogueWorlds :
    /\ PopupInit
    /\ signer = w.signer /\ signers = [i \in DOMAIN signer |-> i]
    /\ address = w.address /\ addresses = [i \in DOMAIN address |-> i]
    /\ dlg = [p \in Popup |-> Free]
    /\ may = [asks |-> w.asks, fails |-> w.fails, sorts |-> w.sorts]
    /\ renamed = FALSE

-----------------------------------------------------------------------------
\* Lookups, by the first match.
FirstOf(s, Test(_)) == LET i == SelectInSeq(s, Test) IN IF i = 0 THEN 0 ELSE s[i]

GetSigner(n) == FirstOf(signers, LAMBDA o : signer[o].name = n)

GetSignerWithCopyIndex(n) ==
  LET o == FirstOf(signers, LAMBDA x : Contains(signer[x].copies, n))
  IN [of |-> o, index |-> IF o = 0 THEN 0
                          ELSE SelectInSeq(signer[o].copies, LAMBDA c : c = n)]

\* The signers that may sign for n: the copies are names, looked up among the signers.
GetSignerWithCopies(n) ==
  LET o == GetSigner(n)
  IN IF o = 0 THEN <<>>
     ELSE SelectSeq(<<o>> \o [i \in DOMAIN signer[o].copies |-> GetSigner(signer[o].copies[i])],
                    LAMBDA x : x # 0)

GetAddress(a) == FirstOf(addresses, LAMBDA o : address[o].address = a)

GetAddressByName(n) == FirstOf(addresses, LAMBDA o : address[o].name = n)

-----------------------------------------------------------------------------
\* What commands make of the lists as they are now: the dialogue, or none.
SignerRemoval(n) ==
  LET i == SelectInSeq(signers, LAMBDA o : signer[o].name = n \/ Contains(signer[o].copies, n))
      o == signers[i]
  IN IF i = 0 THEN Free
     ELSE IF signer[o].name = n THEN [kind |-> "signer remove", index |-> i, name |-> n]
     ELSE [kind |-> "copy remove", of |-> o, name |-> n,
           index |-> SelectInSeq(signer[o].copies, LAMBDA c : c = n)]

SignerPromotion(n) ==
  LET c == GetSignerWithCopyIndex(n)
  IN IF c.of = 0 THEN Free
     ELSE [kind |-> "promote", of |-> c.of, index |-> c.index, name |-> n]

\* to: the name the user gives in the dialogue
DlgSignerEdit(n, to) ==
  LET i == SelectInSeq(signers, LAMBDA o : signer[o].name = n)
  IN IF i = 0 THEN Free ELSE [kind |-> "signer edit", index |-> i, name |-> n, to |-> to]

DlgSignerAdd(n, copyof) == [kind |-> "signer add", name |-> n, copyof |-> copyof]

\* A watched address has no signer.
DlgAddressAdd(a, n, by) == [kind |-> "address add", address |-> a, name |-> n, by |-> by, of |-> 0]

DlgAddressAddWatch(a, n) == DlgAddressAdd(a, n, NoName)

AddressRemoval(n) ==
  LET i == SelectInSeq(addresses, LAMBDA o : address[o].name = n)
  IN IF i = 0 THEN Free ELSE [kind |-> "address remove", index |-> i, name |-> n]

DlgAddressEdit(n, to) ==
  LET o == GetAddressByName(n)
  IN IF o = 0 THEN Free ELSE [kind |-> "address edit", of |-> o, to |-> to]

\* The dialogues of the commands "signer" and "address".
Dialogue(kind) ==
  CASE kind = "signer add" ->
         {DlgSignerAdd(n, c) : n \in Names, c \in Names \cup {NoName}}
    [] kind = "signer remove"  -> {SignerRemoval(n) : n \in Names}
    [] kind = "signer promote" -> {SignerPromotion(n) : n \in Names}
    [] kind = "signer edit"    -> {DlgSignerEdit(n, m) : n \in Names, m \in Names}
    [] kind = "address add"    -> {DlgAddressAdd(a, n, s) : a \in Addresses, n \in Names, s \in Names}
    [] kind = "address watch"  -> {DlgAddressAddWatch(a, n) : a \in Addresses, n \in Names}
    [] kind = "address remove" -> {AddressRemoval(n) : n \in Names}
    [] kind = "address edit"   -> {DlgAddressEdit(n, m) : n \in Names, m \in Names}
    [] kind \in {"other", "contract", "password"} -> {[kind |-> kind]}

\* A command, a hail whose contract or fee is edited, or the pane of a Trezor that wants a
\* password asks for a popup.
Command(p) ==
  /\ \E i \in DOMAIN may.asks :
       /\ Asked(p, CASE may.asks[i] = "contract" -> "operation"
                     [] may.asks[i] = "password" -> "trezor"
                     [] OTHER -> "command")
       /\ \E d \in Dialogue(may.asks[i]) \ {Free} : dlg' = [dlg EXCEPT ![p] = d]
       /\ may' = [may EXCEPT !.asks = RemoveAt(@, i)]
  /\ UNCHANGED <<screen, popupQueue, takes, paused, served, stranded, crossed, lists, renamed>>

\* "address list" sorts the addresses of the wallet themselves, those of one name anyhow.
ListAddresses ==
  /\ Runs
  /\ may.sorts > 0
  /\ may' = [may EXCEPT !.sorts = @ - 1]
  /\ \E order \in [DOMAIN addresses -> DOMAIN addresses] :
       /\ IsInjective(order)
       /\ addresses' = [i \in DOMAIN addresses |-> addresses[order[i]]]
       /\ \A i, j \in DOMAIN addresses :
            i < j => address[addresses'[i]].name <= address[addresses'[j]].name
  /\ UNCHANGED <<popupVars, signers, signer, address, dlg, renamed>>

-----------------------------------------------------------------------------
(***************************************************************************)
(* The button OK. Save may fail: the change stays, and so does the popup.  *)
(***************************************************************************)
Acting(t, kind) ==
  /\ Is(t, "act")
  /\ dlg[t.of].kind = kind
  /\ UNCHANGED <<from, screen, popupQueue, takes, paused, served, stranded, crossed>>

Save(t) ==
  \/ Step(t, "hide") /\ UNCHANGED may
  \/ may.fails > 0 /\ may' = [may EXCEPT !.fails = @ - 1] /\ Step(t, "over")

Stay(t)  == Step(t, "over") /\ UNCHANGED <<lists, dlg, may, renamed>>
Fault(t) == Step(t, "fault") /\ UNCHANGED <<lists, dlg, may, renamed>>

Cancel(t) ==
  /\ Is(t, "act")
  /\ Step(t, "hide")
  /\ UNCHANGED <<from, screen, popupQueue, takes, paused, served, stranded, crossed, lists, dlg, may, renamed>>

RemoveSigner(t) ==
  LET d == dlg[t.of] IN
  /\ Acting(t, "signer remove")
  /\ IF d.index > Len(signers) THEN Fault(t)
     ELSE /\ signers' = RemoveAt(signers, d.index)
          /\ renamed' = TRUE
          /\ Save(t)
          /\ UNCHANGED <<addresses, signer, address, dlg>>

RemoveCopy(t) ==
  LET d == dlg[t.of] IN
  /\ Acting(t, "copy remove")
  /\ IF d.index > Len(signer[d.of].copies) THEN Fault(t)
     ELSE /\ signer' = [signer EXCEPT ![d.of].copies = RemoveAt(@, d.index)]
          /\ Save(t)
          /\ UNCHANGED <<signers, addresses, address, dlg, renamed>>

\* Variant: the names are swapped before the addresses are moved.
PromoteFirst(t) ==
  LET d == dlg[t.of]  s == signer[d.of] IN
  /\ Acting(t, "promote")
  /\ IF d.index > Len(s.copies) THEN Fault(t)
     ELSE /\ signer' = [signer EXCEPT ![d.of] =
               [name |-> s.copies[d.index], copies |-> [s.copies EXCEPT ![d.index] = s.name]]]
          /\ address' = [o \in DOMAIN address |->
               IF Contains(addresses, o) /\ address[o].signer = s.copies[d.index]
               THEN [address[o] EXCEPT !.signer = s.name] ELSE address[o]]
          /\ Save(t)
          /\ UNCHANGED <<signers, addresses, dlg, renamed>>

\* The addresses of the signer move to the copy, then the two names are swapped.
Promote(t) ==
  LET d == dlg[t.of]  s == signer[d.of] IN
  /\ Acting(t, "promote")
  /\ IF d.index > Len(s.copies) THEN Fault(t)
     ELSE /\ address' = [o \in DOMAIN address |->
               IF Contains(addresses, o) /\ address[o].signer = s.name
               THEN [address[o] EXCEPT !.signer = s.copies[d.index]] ELSE address[o]]
          /\ signer' = [signer EXCEPT ![d.of] =
               [name |-> s.copies[d.index], copies |-> [s.copies EXCEPT ![d.index] = s.name]]]
          /\ Save(t)
          /\ UNCHANGED <<signers, addresses, dlg, renamed>>

\* A name that is taken is reported, and given all the same: break leaves the loop only.
EditSigner(t) ==
  LET d == dlg[t.of] IN
  /\ Acting(t, "signer edit")
  /\ IF d.index > Len(signers) THEN Fault(t)
     ELSE /\ signer' = [signer EXCEPT ![signers[d.index]].name = d.to]
          /\ renamed' = TRUE
          /\ Save(t)
          /\ UNCHANGED <<signers, addresses, address, dlg>>

\* The name is free, or the dialogue stays; then the signer, or the copy, is added.
CheckSigner(t) ==
  LET d == dlg[t.of] IN
  /\ Acting(t, "signer add")
  /\ IF \/ GetSigner(d.name) # 0
        \/ d.copyof # NoName /\ GetSigner(d.copyof) = 0
     THEN Stay(t)
     ELSE Step(t, "check") /\ UNCHANGED <<lists, dlg, may, renamed>>

AddSigner(t) ==
  LET d == dlg[t.of] IN
  /\ Is(t, "check") /\ d.kind = "signer add"
  /\ IF d.copyof = NoName
     THEN /\ signer' = Append(signer, [name |-> d.name, copies |-> <<>>])
          /\ signers' = Append(signers, Len(signer) + 1)
     ELSE /\ signer' = [signer EXCEPT ![GetSigner(d.copyof)].copies = Append(@, d.name)]
          /\ UNCHANGED signers
  /\ Save(t)
  /\ UNCHANGED <<from, screen, popupQueue, takes, paused, served, stranded, crossed,
                 addresses, address, dlg, renamed>>

CheckAddress(t) ==
  LET d == dlg[t.of] IN
  /\ Acting(t, "address add")
  /\ IF \/ GetAddress(d.address) # 0
        \/ GetAddressByName(d.name) # 0
        \/ d.by # NoName /\ GetSigner(d.by) = 0
     THEN Stay(t)
     ELSE /\ dlg' = [dlg EXCEPT ![t.of].of = IF d.by = NoName THEN 0 ELSE GetSigner(d.by)]
          /\ Step(t, "check")
          /\ UNCHANGED <<lists, may, renamed>>

AddAddress(t) ==
  LET d == dlg[t.of] IN
  /\ Is(t, "check") /\ d.kind = "address add"
  /\ address' = Append(address, [address |-> d.address, name |-> d.name,
                                 signer |-> IF d.of = 0 THEN NoName ELSE signer[d.of].name])
  /\ addresses' = Append(addresses, Len(address) + 1)
  /\ Save(t)
  /\ UNCHANGED <<from, screen, popupQueue, takes, paused, served, stranded, crossed,
                 signers, signer, dlg, renamed>>

RemoveAddress(t) ==
  LET d == dlg[t.of] IN
  /\ Acting(t, "address remove")
  /\ IF d.index > Len(addresses) THEN Fault(t)
     ELSE /\ addresses' = RemoveAt(addresses, d.index)
          /\ Save(t)
          /\ UNCHANGED <<signers, signer, address, dlg, renamed>>

EditAddress(t) ==
  LET d == dlg[t.of] IN
  /\ Acting(t, "address edit")
  /\ address' = [address EXCEPT ![d.of].name = d.to]
  /\ Save(t)
  /\ UNCHANGED <<signers, addresses, signer, dlg, renamed>>

\* Any other dialogue: it may find fault with what was typed, or do its work.
Other(t) ==
  /\ Is(t, "act")
  /\ dlg[t.of].kind \in {"other", "contract", "password"}
  /\ UNCHANGED <<from, screen, popupQueue, takes, paused, served, stranded, crossed>>
  /\ Step(t, "hide") \/ Step(t, "over")
  /\ UNCHANGED <<lists, dlg, may, renamed>>

OK(t) ==
  \/ RemoveSigner(t) \/ RemoveCopy(t) \/ Promote(t) \/ EditSigner(t)
  \/ CheckSigner(t) \/ AddSigner(t)
  \/ CheckAddress(t) \/ AddAddress(t) \/ RemoveAddress(t) \/ EditAddress(t)
  \/ Other(t)

-----------------------------------------------------------------------------
Rest == UNCHANGED <<lists, dlg, may, renamed>>

Works(t) == ((Hides(t) \/ ShowPopup(t)) /\ Rest) \/ OK(t) \/ Cancel(t)

DialogueNext ==
  \/ \E p \in Popup : Command(p) \/ (Process(p) /\ Rest)
  \/ ListAddresses
  \/ (MainLoop \/ UserCloses) /\ Rest
  \/ \E t \in PopupThreads : Works(t)

DialogueSpec == DialogueInit /\ [][DialogueNext]_dialogueVars
-----------------------------------------------------------------------------
DialogueTypeOK ==
  /\ PopupTypeOK
  /\ signer \in Seq(Signer) /\ signers \in Seq(DOMAIN signer)
  /\ address \in Seq(Address) /\ addresses \in Seq(DOMAIN address)
  /\ may \in Moves /\ renamed \in BOOLEAN

\* A popup that rests unserved: it was queued while that of a Trezor was open and no popup
\* has been shown and closed since; or it is that of a Trezor, closed with ESC.
Stranded(p) ==
  /\ p \in stranded
  /\ \/ Contains(popupQueue, p)
     \/ from[p] = "trezor" /\ p \notin paused

\* When all goroutines have come to their end and no popup is open, every popup that was
\* asked for has been shown and closed, its message answered and its operation given its
\* time back, whatever was queued, clicked twice or closed with ESC; and no goroutine found
\* a popup gone. Excepted are two goroutines that met in the middle of their work, a
\* dialogue that ended the program, and the popups that the one of a Trezor leaves behind.
PopupsAreServed ==
  ~crossed =>
    /\ \A t \in PopupThreads : at[t] # "panic"
    /\ AtRest => \A p \in Popup : \/ served[p] > 0 /\ p \notin paused
                                 \/ at[Ask(p)] \in {"idle", "refused"}
                                 \/ Stranded(p)

\* No address is in the wallet twice unless two clicks met in one dialogue.
AddressesOnce ==
  ~crossed => \A i, j \in DOMAIN addresses :
                address[addresses[i]].address = address[addresses[j]].address => i = j

\* Whatever is promoted, copied, added and removed in whatever order, also with dialogues
\* that remember an older state: as long as no signer is renamed or removed, every address
\* is watched or belongs to a signer of the wallet.
AddressesStaySigned ==
  ~renamed => \A i \in DOMAIN addresses :
    address[addresses[i]].signer \in {NoName} \cup {signer[o].name : o \in ToSet(signers)}

AddressesSound == AddressesOnce /\ AddressesStaySigned

\* "Are you sure you want to remove signer ..." removes that one. The code does not: the
\* index may be that of another one when OK is clicked.
RemovesTheNamed ==
  [][\A t \in PopupThreads :
       Is(t, "act") /\ dlg[t.of].kind = "signer remove" /\ signers' # signers =>
         signer[signers[dlg[t.of].index]].name = dlg[t.of].name]_dialogueVars

\* "Name already exists": no two addresses have one name. The code does not keep it.
NamesDiffer ==
  \A i, j \in DOMAIN addresses :
    address[addresses[i]].name = address[addresses[j]].name => i = j

\* The copies of a signer may sign for it. The code never finds one.
CopiesCanSign ==
  \A i \in DOMAIN signers :
    LET s == signer[signers[i]] IN Len(GetSignerWithCopies(s.name)) > Len(s.copies)
=============================================================================
