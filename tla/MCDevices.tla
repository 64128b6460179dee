----------------------------- MODULE MCDevices -----------------------------
EXTENDS Devices, DeviceFrames, TypedData

CONSTANTS l1, t1, p1, p2

World(there, app, starts, plugs, locks, fails, clicks, asks) ==
  [plugged |-> there, app |-> app, starts |-> starts,
   budget |-> [plugs |-> plugs, locks |-> locks, fails |-> fails, clicks |-> clicks,
               asks |-> asks]]

\* A Ledger comes, goes and comes back; one comes while Ethereum runs on it; one comes
\* while a request waits for it; one changes its application for a request, or is locked
\* or unplugged. A Trezor comes and goes; two requests meet on one; one takes chunks.
\* Requests for two devices run at once.
MCWorlds ==
  {World({}, "BOLOS", 0, 3, 0, 0, 0, {}),
   World({}, "Ethereum", 1, 1, 0, 0, 0, {}),
   World({}, "BOLOS", 0, 1, 0, 1, 1, {LedgerSign(l1)}),
   World({l1}, "BOLOS", 1, 0, 1, 0, 0, {LedgerAddresses(l1, 2)}),
   World({l1}, "Ethereum", 0, 1, 1, 0, 0, {LedgerSignTyped(l1, 1)}),
   World({}, "BOLOS", 0, 2, 0, 1, 0, {TrezorAddresses(t1, 1)}),
   World({t1}, "BOLOS", 0, 0, 1, 0, 0, {TrezorSign(t1), TrezorSignTx(t1, 0)}),
   World({t1}, "BOLOS", 0, 0, 1, 0, 0, {TrezorSignTx(t1, 1)}),
   World({l1, t1}, "Ethereum", 0, 0, 0, 0, 0, {TrezorSignTyped(t1), LedgerSignTx(l1)})}

MCLengths == 0..45

F(name, type, size, array) == [name |-> name, type |-> type, size |-> size, array |-> array]
DomainFields == <<F("name", "string", 0, FALSE), F("chainId", "uint", 256, FALSE)>>
MyDomain == [name |-> "app", chainId |-> 1]

\* A type used twice and in an array; one that uses itself; an empty array, one of numbers;
\* bytes of fixed sizes and a number below zero.
Person(n) == [name |-> n, wallet |-> "0x" \o n]
Mail ==
  [types |-> [EIP712Domain |-> DomainFields,
              Mail   |-> <<F("from", "Person", 0, FALSE), F("to", "Person", 0, TRUE),
                           F("contents", "string", 0, FALSE)>>,
              Person |-> <<F("name", "string", 0, FALSE), F("wallet", "address", 0, FALSE)>>,
              Unused |-> <<F("flag", "bool", 0, FALSE)>>],
   primary |-> "Mail", domain |-> MyDomain,
   message |-> [from |-> Person("a"), to |-> <<Person("b"), Person("c")>>,
                contents |-> "hello"]]

Leaf(n) == [value |-> n, next |-> <<>>]
Tree ==
  [types |-> [EIP712Domain |-> DomainFields,
              Tree |-> <<F("value", "int", 8, FALSE), F("next", "Tree", 0, TRUE)>>],
   primary |-> "Tree", domain |-> MyDomain,
   message |-> [value |-> 1, next |-> <<[value |-> 2, next |-> <<Leaf(3)>>], Leaf(4)>>]]

Order ==
  [types |-> [EIP712Domain |-> DomainFields,
              Order |-> <<F("asset", "Asset", 0, FALSE), F("ids", "uint", 256, TRUE),
                          F("fee", "Fee", 0, FALSE)>>,
              Fee   |-> <<F("paid", "Asset", 0, FALSE), F("none", "uint", 8, TRUE)>>,
              Asset |-> <<F("token", "address", 0, FALSE), F("amount", "uint", 128, FALSE)>>],
   primary |-> "Order", domain |-> MyDomain,
   message |-> [asset |-> [token |-> "t", amount |-> 5], ids |-> <<7, 8>>,
                fee |-> [paid |-> [token |-> "u", amount |-> 6], none |-> <<>>]]]

Proof ==
  [types |-> [EIP712Domain |-> DomainFields,
              Proof |-> <<F("root", "bytesN", 32, FALSE), F("kinds", "bytesN", 4, TRUE),
                          F("change", "int", 256, FALSE)>>],
   primary |-> "Proof", domain |-> MyDomain,
   message |-> [root |-> "r", kinds |-> <<"k", "m">>, change |-> -3]]

MCMessages == {Mail, Tree, Order, Proof}

\* A Ledger is plugged in, gives no name, and is then asked for.
MCUnnamed == {World({}, "BOLOS", 0, 1, 0, 0, 0, {LedgerSign(l1)})}

\* Whatever a task has a device do, the device gets the command, the definitions and the
\* values that were meant, and the task gets the reply, packet boundaries, lengths and the
\* order of nested types notwithstanding.
SentIntact ==
  (\E p \in Tasks : task[p].io = "call") => FramesReassemble /\ TypedDataSent
=============================================================================
