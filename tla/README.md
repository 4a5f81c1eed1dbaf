# routecoin (ePoint Wi-Fi vending machine) in TLA+

routecoin turns an OpenWrt router into a Wi-Fi vending machine. A client that
pays with an ePoint *rand* (a bearer secret whose value an external *issuer*
keeps) gets through the firewall for some time; cron takes the access away, or
charges the rand again, when the time is over. This directory holds
specifications of the parts where that can go wrong, TLC models of them, and
proofs.

Everything on the router is a script that runs to its end: CGI programs that
clients start, commands the administrator starts, one script that cron starts
every minute, and one that is left in the background after each payment. They
have no server to go through. They meet in the acl files, under the flock of one
lock file; at the issuer, over a network that may lose requests and replies; and
in two firewall chains. Beside that there are C programs without shared state:
the encoders and the signature of a document that is sent to the issuer, two
printers of bar codes, and the library that makes addresses and keys. The first
kind is hard because of its interleavings, crashes and lost messages; the second
because of its boundaries: a buffer that is full, a carry, a last group that is
cut short.

## 1. Inventory

| component | source | state | operations |
|---|---|---|---|
| acl lock | `acl.lua` and `localacl.lua` (`with_lock`), `usr/lib/epoint/lock`, `init.d/epoint` | the lock file, each process's open file and lock | open, flock, close; `touch` at start, `rm` at stop |
| multiuse acl | `epoint/luasrc/epoint/acl.lua` | `/var/epoint.acl` (addr, expire, rand), its `.tmp` | `read`, `update(func)`, `topup`, `hasaccess`, `extraaccess`, `extraentries` |
| local acl | `localacl.lua`, `move.lua` | `/etc/epoint-local.acl` (addr, optional expire), a copy in `/var` | `topup`, `remove`, `refresh`, `unlimited` |
| pay per minute | `usr/sbin/grant-access`, cgi `grant` | none of its own | check access, verify the rand, add a day to the acl, start `takepayment`, rebuild the rules |
| long term payment | `usr/sbin/topup`, cgi `grant` | none of its own | the same with the local acl and a tariff |
| payment task | `usr/sbin/takepayment` | two state machines | draw the amount (and retry), roll the time back, move the old rand's value to the new rand |
| expiry | `usr/sbin/expire-rules` | none of its own | drop expired entries or charge their rand for more minutes |
| firewall rules | `update-rules`, `init.d/epoint` | chains MACFILTER and MACREDIRECT, the run flag, the crontab | rebuild both chains from the acl files; start, stop |
| whitelist, login, logout | `whitelist`, cgi `login`, `logout`, LuCI whitelist form | none of their own | add and remove unlimited entries, drop one's own entry |
| issuer protocol | `protocol.lua` | template cache on disk and in the process | verify, obligation transfer, template download and check |
| tariffs | `tariff.lua`, `fixip/tariff.lua` | `/etc/epoint/tariffs` | time for a payment, payment for a time, the acl file for a payment |
| billing log | cgi `grant` (`invoice`), `epoint-invoice/.../invoice.lua` | `/etc/epoint/billing.log`, two different locks | append with the next serial number; find by number or time by bisection |
| fixed ip acl | `epoint-fixip` | several acl files, their own lock, rules by ip | `topup`, `filter`, `dropold`, `hasaccess`; the shell script `whitelist-fixip` |
| random numbers | `epoint/src/rng.c` | `/tmp/epoint.serial` | a seed from address, time, pid and serial number |
| encoders | `b16.c`, `b32.c`, `b64.c`, `hex.c`, `crc24.c`, `armor.c`, `urldecode.c` in `epoint/src` | a buffer, the decoder's state between two chunks | encode, decode, armor |
| keys and signed text | `dsakey.c`, `clear.c`, `sign.c`, `verify.c` in `epoint/src` | buffers of a line, a packet and the output | rand to key, key to packets and back, clear sign |
| bar codes | `qrbmp/src/qrenc.c`, `code128b/src` | options; a file for each symbol | options, encode, write the picture |
| hashes | `sha2.c`, `ripemd160.c`, `hmac.c` in `address` | context: state, buffer, length | init, update, final, hmac |
| numbers | `bignum.c`, `uECC.c` in `address` | limbs | arithmetic modulo a prime, roots, inverses |
| curves | `uECC.c`, `ecdsa.c`, `rand.c` in `address` | points, the generator of nonces | multiply, sign, verify, recover, agree on a secret, DER |
| key trees and texts | `bip32.c`, `base58.c` in `address` | nodes, the cache of derived nodes | derive, serialize, Base58Check |
| ed25519 | `ed25519.c`, `modm-donna-32bit.h`, `ed25519-donna-impl-base.h` in `address` | scalars, digits, points | public key, sign, open |
| issuer | not in the repository | the value of each rand | certificate of value, obligation transfer |

What makes each of them correct, and what makes that hard:

* **Acl lock.** A writer of the acl files is alone. Hard: the file is opened
  before it is locked, and the init script removes it.
* **Multiuse acl.** An update is one step for everybody else, and never half of
  one after a crash, a failed write or a reboot (which empties `/var`). Hard: what
  is written stays in a buffer until the close, whose result is dropped, so that
  on a full disk a part of the table does replace it.
* **Local acl.** The same for a file of lines that is filtered, moved across
  file systems and appended to; a line without an expire means access without
  end, so a torn line is dangerous, and a piece of an IPv4 address is an address.
* **Payments.** The seller is paid for every minute that clients keep; a client
  keeps every minute that was drawn; what could not be drawn is taken back. Hard:
  the time is given first and the payment drawn later in the background, a rand
  may be shown twice, replies get lost, and several payments for one address
  overlap.
* **Expiry.** Rands are charged for exactly the minutes added, entries that are
  paid or whitelisted are treated as such, and expired ones are dealt with. Hard:
  the issuer is asked in the middle of an update, and part of what the script
  knows was read before it took the lock.
* **Firewall.** Both chains agree, nobody without an entry gets through, and
  whoever has one does, once the scripts have ended.
* **Issuer protocol.** The answer tells what happened, whichever message was lost
  and however often the issuer changed its template meanwhile.
* **Fixed ip acl.** Several files are one table, although Lua and shell write
  them; the rules follow it.
* **Files with numbers.** Serial numbers of rands and invoices are not given
  twice, and an invoice is found by its number and its time.
* **Encoders, signed text, bar codes, Base58.** What was written can be read by
  whoever follows the format; what is not canonical is refused.
* **Hashes.** The result is that of the standard however the message is cut, and
  whichever variant of the rounds the build chooses.
* **Numbers, curves, ed25519.** Partly reduced numbers stay in the range that the
  next operation needs; windows, ladders and tables compute the multiple that the
  scalar means; signatures verify.
* **Key trees.** A node is the same with and without its private key, from the
  cache and from its text.

## 2. Modules

    AclStore   <-- implemented by --  AclFile  EXTENDS  AclLock
    LocalStore <-- implemented by --  LocalAcl EXTENDS  AclLock, Lines
    LocalStore <-- implemented by --  FixIpAcl EXTENDS  Lines
    GateState <- TakePayment <- GrantAccess <- ExpireRules <- Gate   (EXTENDS)
    Codec <- Armor                                                   (EXTENDS)
    CurveGroup <-- the group law that MicroEcc and Ecdsa are compared with
    FilesMC, TextMC, KeysMC: components that do not interact, one run for each
    AclLockProofs <- AclFileProofs, LocalAclProofs      GateProofs <- PaymentProofs
    LinesProofs <- LocalAclProofs, FilesProofs, TextProofs           (EXTENDS)

| module | models | how its state and actions correspond to the code |
|---|---|---|
| `AclLock` | the lock | `lockfile` is the inode behind `/var/lock/epoint.acl`, `fd` and `held` what each process has open and locked. `OpenLock`, `Flock`, `CloseLock` are the three calls in `with_lock`; `TouchLock`, `RemoveLock` the lines of `start` and `stop`. |
| `AclStore` | the promise of `acl.lua` | one table; `Update` and `Read` are one step each; a reboot empties it; while the file system is full an update may leave a part of its table (`Short`). |
| `AclFile` | `acl.read`, `acl.update` | `pc` goes through open, flock, load, func, `OpenTmp`, one `WriteEntry` for each entry (in the arbitrary order of `pairs`), `CloseTmp`, `Rename`, close. `Fail` is any of these calls failing and being heard of, `Kill` a dead process, `Reboot` the end of `/var`. The close writes the buffer: when there is no room (`full`), a part of the table is left in the copy and is renamed all the same. `CutOf` is what the last, cut line may be read as. |
| `LocalStore` | the promise of `localacl.lua` and of the fixed ip acl | one table; topup, remove, refresh and reading are one step each. |
| `Lines` | `filter` of both acls | `Kept`: the lines of a file that are written again. |
| `LocalAcl` | `localacl.lua`, `move.lua` | the file is a sequence of lines: comments, bad lines, rules. `FilterToTmp` and the move, `MoveByRename` or `MoveTruncates` and `MoveCopies`, and `AppendLine` are the file operations; `Kill`, `OpenFails`, `TmpIsShort`, `MoveFails`, `AppendIsShort` what goes wrong with them, with every place a file can be cut at (`CutFiles`). A cut line may be bad, have a shorter expire or none, or name another address: `Garbled` gives those a cut IPv4 address may be read as, alone or glued to the line that is appended behind it (`MergedRules`). A reader may die of a comment (`acl.extraentries`). |
| `GateState` | what scripts share | the two acls as atomic tables, the holder of the lock, the two chains, and the issuer: `Transfer` has the effect and the answer of `obligation_transfer`. `till`, `unheard` and `charged` are history: what the seller has, what of it no script heard of, and what `expire-rules` drew. `Written`, `NotWritten` and `NotOpened` are the ends of an update: the table, or on a full disk a part of it, is in place; nothing is, and update returns nil; a file could not be opened, and the script dies of the error. `scrap` is an address that the cut end of the file still names, which only `update-rules` sees, and `stranded` is history: who lost the entry by a fault since the rules were last made. |
| `TakePayment` | `takepayment` | `pay[p]` is the process that script `p` leaves in the background: the state of both machines (`draw`, `old`) and whose turn it is. One action for each function that may be a machine's next state. A roll back that cannot open the acl kills the process (`dead`). |
| `GrantAccess` | `grant-access`, `topup`, `logout`, `whitelist`, `update-rules` | `job[p]` holds the local variables of script `p`. Each critical section of the lock and each call of the issuer is an action, so everything a script has read may be stale when it uses it. |
| `ExpireRules` | `expire-rules` | `work[c]` holds its local variables: the snapshot `extra`, the table being updated, and what is still to be looked at; `got` and `gone` are history, what was charged for each entry (the remaining value that `DrainRest` takes included) and whom `refresh` dropped. It holds the lock from `BeginUpdate` to `Replace`, over its calls of the issuer. Where the code raises an error (a comment in an extra acl, the lock file or the copy that cannot be opened) the script dies (`Die`) and does not come to `update-rules`. |
| `Gate` | the vending machine | all of the above with the clock; the properties that relate money, time and the firewall. |
| `Protocol` | `obligation_transfer` | `call[p]` is the call of a process, message by message; `cached` its template in memory, `certFile` the file with the template of certificates. The issuer may change its template (not back to an old one), and every message may be lost. |
| `RngSerial` | `rng.c` | the file with the serial number, one action for each system call; kills, failed calls and reboots. |
| `BillingLog` | cgi `grant`, `invoice.lua` | `billLog` is the log, a line its number, its time and where it ends; `invoice` of the cgi step by step, with kills. `search` holds the local variables of `findsn` or `findtime`: `FindFirst`, the turns of the bisection by byte position (`Probe`) and of the linear search (`ReadSn`, `ReadTime`) are steps, between which payments append lines. |
| `FixIpAcl` | `epoint-fixip` | `fixFile[i]` are the lines of the i-th file, `fixJob[p]` the local variables of a script; a critical section is a step, and so is the rebuilding of the rules. |
| `Tariff` | `tariff.lua`, `fixip/tariff.lua` | `time`, `payment`, `choose` and `aclfiles` on parsed lines, with rounding and the overflow of `toint`. |
| `Codec`, `Armor` | base 16, 32, 64, crc24, armor, keys as packets | functions of `text`, which an action makes longer byte by byte. |
| `UrlDecode` | `urldecode.c` | `ReadChunk` is a read of any size, `DecodeChar` a turn of the loop in `urldecode`, `WriteChunk` what `main` does with the result; `decoder` keeps the state from one chunk to the next. `UrlParse` is what a text means, without chunks. |
| `ClearSign` | `clear.c` | the signer's turns over the lines of a document, with its buffers and the room for the output. `SplitLines`, `ReadLines`, `Canonical` and `TrailerOf` are what a reader does with the result (RFC 4880). |
| `Base58` | `base58.c` | encoding and decoding with the words and the room they use, on smaller bytes and digits. |
| `Hash` | `sha2.c`, `ripemd160.c`, `hmac.c` | contexts, buffers and counters; the message arrives in pieces of any size. The compression function is opaque: a state is the list of blocks it has seen. |
| `Compression` | the rounds of the hashes | one action for each round, rolled and unrolled, with the ring of sixteen words. |
| `BarCodes` | `qrenc.c`, `pngenc.c` | the option loop, the bitmap with its header, one file for each symbol; the symbols, rows and margins of a bar code. |
| `Bignum`, `Vli` | `bignum.c`; the words of `uECC.c` | the limbs with their carries; the loops of roots, inverses and reductions are state machines. |
| `MicroEcc`, `Ecdsa` | the points of `uECC.c`; `ecdsa.c` | the ladder and the windows turn by turn, with the coordinates the code uses. |
| `Nonce` | `rfc6979` in both files, `rand.c` | the generator as a term of HMACs, with the buffers that overlap, and the refusal of nonces; the limit and the division of `random_uniform`, the exchanges of `random_permute`. |
| `Bip32` | `bip32.c` | a node with and without its private key along one path; the cache; texts. |
| `Ed25519` | scalars of ed25519 | expand, Barrett reduction, both kinds of windows, the loops over them. |

`AclFile` and `LocalAcl` are refinements: `Gate` uses the tables their abstract
specifications describe, which is sound as far as they are implemented (for the
local acl: while no file operation fails). An update of the multiuse acl that
hears of a failure leaves the table alone, one that does not hear of it leaves a
part of the new table, and one that cannot open its file ends the script; these
are steps of `Gate` too (`NotWritten`, `WrittenShort`, `NotOpened`).
`Transfer` of `Gate` in turn is the outcome of `Protocol`: executed and
answered, executed and not heard, refused, or lost.

`AclFileMC`, `LocalAclMC`, `GateMC`, `FilesMC`, `TextMC` and
`KeysMC` give the constants their values for TLC. In the last three a variable
`part` says which component takes steps in a behaviour; `EncodingsRoundTrip` and
`Base58RoundTrips` of `TextMC` ask their question only where its component does. Definitions marked
"Mutant of X" before a definition X are plausible mistakes in the code that X
models; with any of them in X's place the property that `PROJECT.json` names
fails.

## 3. Runs

| run | instance | what it shows |
|---|---|---|
| `acl_file` | 2 processes, 3 inodes, 2 addresses, entries topped up at most once; failing calls, a full file system at a close, kills, reboots | type invariant, mutual exclusion, no update works on a table that has changed meanwhile, the copy that is renamed is complete, or a part of the new table after a full close, the refinement of `AclStore`; the lock is given back, also after errors |
| `local_acl` | 2 processes, 2 addresses, one of them a piece of the other, clock 0..1, at most 3 lines; a timed entry and a bad line to begin with; the move renames or copies; one fault of any kind at any place | until the fault: one line for each address and the refinement of `LocalStore`; whatever fails, nobody gets an entry he did not have or pay for, except, after the fault, who has an address that a cut line of a client reads as; and until it only the whitelist gives access without end |
| `gate_pay` | 3 clients, each by the minute or for long, 2 addresses, 2 rands, one of them the seller's own; lost replies, updates that fail or die | the money drawn is the money due, each entry has exactly the time that was paid for, and clients with an entry are let through |
| `gate_cron` | cron, one script of any kind with its payment task, 2 addresses, clock 0..1; updates that fail, die or meet a full disk, comments in the local acl; nobody or two clients with one shared rand, a timed or unlimited local entry to begin with | types, no access without an entry but for who was stranded by a fault, chains agree, minutes charged are minutes given and dropped entries pay no more than the minutes due, the table written has no expired entry |
| `gate_live` | cron and one per-minute client, lost replies, files that cannot be opened or written for a time, comments in the local acl for a time | payments settle, expired entries are handled |
| `files` | 3 processes that draw numbers up to 3; 2 payers, a log of 4 invoices in lines of two lengths, one search in it by any number or time while they append; 2 callers with 2 calls each, templates 1..3, a rand worth 3; 2 scripts, 2 fixed addresses in 2 files; every tariff of one line and every sensible one of two, in small integers | serial numbers do not repeat, invoices are consecutive, and found by number and by time in few turns, an answer of the protocol is true and comes, the fixed ip files are one table that the rules follow, who pays a quoted price gets the time |
| `text` | texts of up to 5 bytes of 4 kinds and lines of 3; forms of 4 characters in chunks of up to 3; documents of up to 4 bytes of 6 kinds, among them a zero, a carriage return and a dash, with a line buffer of 4; messages of up to 20 bytes around blocks of 8; every kind of pictures of 1 to 3 dots; bar codes of one to three bytes | encoders, signed texts, Base58, hashes and bar codes are read back and follow their formats |
| `keys` | limbs of 6 bits, words of 4; curves over 127 and 251 of prime order; ed25519 with bytes of 3 bits and an order of 23 bits; paths of 3 | arithmetic is modular, the curves' code follows the group, trees and texts are one, nonces follow the RFC, signatures verify |
| `acl_lock_stop_exclusion`, `local_acl_move`, `gate_old_rand`, `fixip_whitelisted` | small instances | expected violations: see Findings |

**Bounds.** Every bound is a constant named in the `.cfg`: the number of
processes, addresses, rands and inodes, `MaxTime` of the clock, `MaxExpire`
and `MaxLines` of the local acl, `MaxTopup` of an entry, `MaxFailures` of
faults, `MaxSerial`, `LogBound`, `MaxTemplate`, `MaxCalls`, the lengths of
texts. Scripts in `Gate` run once each, as many as there are members of
`Script`; the background process of a script goes on when the script has ended,
so three scripts are up to six concurrent processes. Two addresses are enough
for one client to be in another one's way in a table, three clients for a roll
back between two payments for the same address, two rands of different value
for a rand that two clients show at once. A clock of two values lets entries
expire at and after the time a script has read, and lets that time be stale when
the script uses it; an entry that begins with the clock is behind by one minute or
two when it is charged. `gate_cron` leaves out that a reply is lost after the
transfer: `expire-rules` goes on as after a request that was lost, which it has, and
what differs is the history (`unheard`), which `gate_pay` looks at. Where time only adds up
(`gate_pay`) it stands still, and two addresses are symmetric there
(`SymOfPayments`): the acls are empty at the start and no cron script looks at
the addresses in turn. Time counts in minutes, the step in which
`expire-rules` counts; prices are one, since the amounts are only compared and
added. One fault in `LocalAcl` reaches every state of one process that dies
while the other goes on; a second one adds only further cuts, and the append to a
file that is already torn that is itself cut, which is part of the proof only. A document of one
line more than the buffer, a message of two blocks and a bit, a log longer than
the window of the bisection, a number one above each power of the word: the
lengths are chosen so that every buffer runs over once and a carry runs through
every word.

In `Bignum`, `Vli`, `Ed25519`, `Base58`, `Compression` and `Hash` a word is
shorter than in the code and there are fewer of them; the loops, limits and
carries are written in terms of these constants. The ratios the code depends on
are kept: a reduction that reduces twice, a product of two words that fills
two, an order just below a power of two.

`CHECK_DEADLOCK FALSE` is set where scripts only run once and there is no cron,
and where functions are evaluated on every short input: such a system stops.

**Fairness.** `acl_file` assumes that a process that can go on does (weak
fairness per process), as the kernel's scheduler sees to. `gate_live` assumes
that the clock goes on, that the lock, which every script holds for a bounded
time and cron at most once a minute, is not withheld from a waiting process for
ever (flock(2) queues its waiters), and that the issuer does not fail to answer
one process for ever (strong fairness of `DrawAnswered`): without the last,
`takepayment` rightly tries for ever. Its two properties are further conditional on
`FilesWork`: that a roll back that is tried again and again is written at last, that
`extraentries` does not find a comment or an empty line every minute, and that the
table is written at last. The code guarantees none of these: an administrator who
leaves a comment in an extra acl stops expiry for good (section 4). `files` assumes that a call of the issuer
goes on (weak fairness of `Proceed`): a request ends in an answer or in a
timeout. That such a call ends also needs the bound on the number of templates:
it may rightly go on for as long as the issuer keeps changing its template.

**What only holds under restrictions.**

* `MoneyIsAccounted`: the seller has what is due to him, what `expire-rules` drew
  (`charged`), and what was executed in transfers whose answer was lost
  (`unheard`). That a client is never charged
  twice does not hold: a retry is a new transfer with a new reference number.
* `PaidTimeKept` is about clients without a local entry: `acl.topup` gives no
  time to an address that has one, and the payment is drawn all the same.
  It is about payments that could be rolled back: one whose process died of an
  error keeps its day.
* `NoAccessWithoutEntry` excepts `stranded`: who lost the entry in a table that a
  full disk cut, or to an `expire-rules` that died before it came to the rules, is
  let through until the next script rebuilds them.
* `MinutesArePaid` bounds what an entry that is dropped has paid; that it has paid
  nothing does not hold, see `DrainRest` and section 4.
* `TmpIsComplete` and `ImplementsStore` of `AclFile` allow a part of the new table
  when the file system was full at the close.
* `OneLinePerAddress` and the refinement of `LocalStore` hold until the first fault,
  `NoAccessInvented` always, but for garbled addresses after it.
* `PaidAreLetThrough` holds while nothing removes entries: a script that found an
  entry at its start does not rebuild the rules, although `expire-rules` may
  have dropped that entry meanwhile. The sources mark these two with a TODO.
* `SerialsDoNotRepeat` holds between two reboots and as long as the writing of
  the file succeeds (`rngIntact`), since its result is ignored.
* `SerialsAreConsecutive` takes a line of the log (shorter than 4K) for one
  write, and a cookie for one that does not contain `sn=`. A full disk that cuts a
  line is left out.
* `InvoiceIsFound` needs a clock that does not go back between two payments, for the
  search by time.
* `AnswerIsTrue` assumes that the issuer does not return to an old template.
* `PaymentBuysItsTime` takes doubles for exact, and holds unless a product does
  not fit an integer; then the client gets nothing and pays nothing.
* `FilesAreOneTable` holds until an address that has time left is whitelisted
  (`fixMixed`), see Findings.
* In `MicroEcc` the three keys whose ladder meets equal or opposite points are
  excluded by name (`Degenerate`); for the 256 bit curves they are 1 and the two
  numbers below the order.

## 4. Findings

* **`acl_lock_stop_exclusion`** (`init.d/epoint:58`): `stop` removes the lock
  file. A script that holds a lock on it goes on; the next one creates and locks
  another file. Two writers are then in sections of which `localacl.lua:49` says
  "caller should hold exclusive acl lock": the run checks `OneWriter`, that no two
  processes hold the exclusive lock, and ends with two that do. What is left is
  `SameInodeExclusion`.
* **`local_acl_move`** (`move.lua:44`): between file systems, as between `/var`
  and `/etc` of the router, the move truncates the target and fills it. A kill
  meanwhile loses entries of other clients; `move.lua:35` says "Robust rename
  even between different filesystems".
* **`gate_old_rand`** (`takepayment:77`): `drawold` returns `verifyold` above the
  line that declares it as a local function. The name is an undefined global
  there, the task becomes `nil` and ends, and the rest of the old rand's value
  stays behind; the comment in line 76 says "invalid oldrand: retry
  verification".
* **`fixip_whitelisted`** (`fixip/acl.lua:155`): `whitelist-fixip add` appends a
  line without an expire and leaves the one with an expire in place. `topup`
  looks at the first line of the address only, adds the time and returns true;
  line 140 says "return false if whitelisted, otherwise true".

Met while modelling, and modelled as they are (no run for them):

* `acl.lua:110` writes into stdio's buffer, and whether the close could write it
  nobody asks (`scope.lua:25`): on a full disk `replace` renames a part of the
  table, or an empty file, over the acl and returns true.
* `acl.extraentries` (`acl.lua:178`) uses a nil as a key at a comment or an empty
  line of an extra acl, which raises an error, although `localacl.filter` itself
  turns bad lines into comments. `expire-rules:56` then dies every minute, and no
  expired entry is dropped or charged until the line is gone. It dies too where the
  copy of the acl cannot be opened (`with_file(nil)`, `scope.lua:33`), and in both
  cases before `update-rules`, although `refresh` may have dropped entries.
* `expire-rules:43-52` takes what is left on a rand after a transfer that failed,
  or was only not answered: the second transfer may pay for all that is due, and
  the entry is dropped all the same.
* `checkaddr` (`localacl.lua:24`) takes `192.168.1.10` for an address when it is all
  that is left of a line for `192.168.1.105`; without an expire this is access
  without end for somebody else, which `update-rules:32` grants.
* `expire-rules:56` reads the whitelisted addresses before it takes the lock
  for its update: an address that leaves the whitelist and pays in between is
  dropped as whitelisted. Line 60 asks "TODO: race?".
* `localacl.topup` returns true for a whitelisted address, although its comment
  says false (`localacl.lua:158` and `175`).
* `luaepointutil.c:137` keeps the length of a decoded text in an unsigned
  variable, so that an invalid base 64 text is not reported as one.
* `armor_buffer` and `clearsign_buffer` end a full buffer with a NUL one place
  behind it; the results of `cbputs` are not looked at.
* `qrenc.c:118` gives its files the suffix `.png`, its help (line 320) says `.bmp`;
  the pictures are read back by `CodesAreReadable`, the names are not; option
  `S` goes on into option `k`. The check symbol of a Code 128 with no printable
  byte is 104, which is not a check symbol.
* `uECC.c` neither reduces `r` modulo the order nor refuses `s = 0`, and does
  not reduce a hash of the length of the order; the sum of Q and G fails for
  Q = G and Q = -G.
* `bn_inverse` of zero (`bignum.c:521`) depends on the build; recovering a key
  from a signature with s R = e G asks for it. Signing a digest that is zero
  modulo the order gives up (result 3).
* `bip32.c`: `public_ckd` clears the child before it refuses; a path longer than
  the cache's depth and one is not checked; the depth in a text is one byte.
* `base58_decode_check` does not refuse more leading `1` than there is room for.

## 5. Proofs

The theorems hold for any sets of processes, inodes, addresses and entries, any
functions passed to `acl.update`, any number and length of acl files, of the log
and of the tariffs, any number of templates, rands and scripts.
The assumptions on the constants, which TLC evaluates in every run, say no more
than what a name stands for: `NoInodeAssumption` and `TableAssumption` that "no
inode" is not an inode, "no value" not an entry, and that a function passed to
`acl.update` returns a table; `ReadOpAssumption` that a reader is not one of
these functions; `RngAssumption` that the marks for a missing and a torn file
are no numbers; `BillingAssumption` and `ProtocolAssumption` that bounds, serial
numbers, lengths and values are natural numbers, and that the window of a search
is not empty; `UrlAssumption` that characters are numbers and the decoder's buffer is
not empty; `GateAssumption`,
`TablesAssumption` and `KindsAssumption` that the kinds of processes are apart,
prices and times are positive, "absent" is no entry, the acls at the start
are tables, and what is left of a cut rand is a rand (one without value, as a rule);
`LinesAssumption` of `LocalAcl` and `FixAssumption` that the marks
for "absent" and "unlimited" are no times, a comment is no rule, and what a garbled
address may be garbled to, the address itself may be (a piece of a piece is a piece);
`TariffAssumption` that times and amounts are digits, as the pattern of `parse`
sees to, and not 0, by which the code would divide.

`HashAssumption` says that a block is a whole number of words and more than the
length field, that the counters wrap at a whole number of blocks, as 2^32 and
2^64 do, that a digest is no longer than a block and that the code can state the
length of a piece; `SignAssumption` that characters are unsigned bytes, a
fingerprint has 20 bytes, the line buffer has room for the `'\0'`, and the two
numbers of a signature fit the packet (one with more than 250 bytes is refused);
`NonceAssumption` that the largest number `random_uniform` is asked for is a word.

Five theorems have a hypothesis on the constants that the code does not enforce,
and each is named for it. `OnlyPayments` (no cron, no administrator, empty acls, a disk
that is not full) and `OnlyAdditions` (nothing removes entries, and no full disk
cuts them off) are the instances for which
`PaidTimeKept` and `PaidAreLetThrough` are meant: with `expire-rules` an entry
grows by minutes charged, and who is dropped after a payment has looked at the
acl is not let through (section 3). `gate_pay` is such an instance.
`OneLinesToBegin` says that the administrator has written no two rules of an
address: a second one, hidden behind the first, would come to light when the
first is dropped, and might be unlimited.

* `AclLockProofs`: `MutualExclusionHolds` for `LockSpec`, and
  `SameInodeExclusionHolds` for `LockSpecStop`, in which the lock file may be
  removed at any time. Mutual exclusion is not inductive: it also needs that
  every open lock file is the one the name refers to (`OneLockFile`) and that
  locks are held through open files only (`HeldIsOpen`); together they are
  `LockInv`. Removing the file is the step that breaks `OneLockFile`.
* `AclFileProofs`, for any `CutOf`: `Invariance` proves the inductive invariant `IInv` of
  `AclFile`, from which `TypeCorrect`, `NoLostUpdateHolds` and
  `TmpIsCompleteHolds` follow. `IInv` joins `TypeOK`, the lock invariant,
  `LockFollowsPC` (where a process is tells what it has locked), `NoLostUpdate`
  (what a writer has loaded is what the file still holds), `TmpIsPartial` (the
  copy has the writer's entries except the ones still to be written) and
  `TmpIsComplete`, in which the copy is the whole table or, if the close found the
  file system full, a `Short` one. The argument is the one a reader of the code would give: the
  lock keeps every other writer out, so the file and its copy are only changed
  by the process whose local variables describe them. The proof has a step for
  each action and conjunct.
* `Refinement` (same module): every behaviour of `AclFile` is one of `AclStore`.
  `Rename` of an updater is `Update`, `CloseTmp` is `Fill` (whether there is room),
  `LoadToRead` is `Read`, a reboot empties the table, and everything else is a
  stutter. It rests on `IInv`: only because
  nothing was lost and the copy is complete is the renamed table the function's
  result for the table that was there, or a part of that result when `full`.
* `FilesProofs`, for the components that `FilesMC` checks:
  * `SerialsDoNotRepeatHolds`, from `RngInv`: a process that is past the flock is
    alone with the file (`AloneWithFile`) and only it has a number
    (`NumberedOnlyUnderLock`); while every write has succeeded (`rngIntact`), the
    number in the file is the highest that was taken (`FileIsHighest`) and no two
    rands or processes share one (`TakenOnce`). `FileIsHighest` is what makes the
    rest inductive, and what a failed write breaks.
  * `SerialsAreConsecutiveHolds`, from `BillInv`: one payer at a time is between
    lock and unlock (`OneBillAtATime`), and the number it has worked out is one
    more than the last line's (`NumberIsNext`).
  * `InvoiceIsFoundHolds`, from `SearchInv`: lines follow each other in the order of
    their times and, from `BillInv`, of their numbers (`LogIsOrdered`,
    `KeysAreOrdered`), so that what a probe has read decides about every line on
    one side of it. Before the lower end there are only lines smaller than what is
    sought, and behind the upper end only bigger ones among the lines that were
    there when the search began (`BisectionIsRight`); what the linear search has
    passed over is smaller, and of the lines it may still pass over only those of
    one window (`ReadingIsRight`). Lines that payments append meanwhile are at the
    end and disturb neither (`SearchGrows`).
  * `AnswerIsTrueHolds`, from `ProtoInv`: templates of processes are never newer
    than the issuer's (`TemplatesAreOlder`), a transfer is executed at most once in
    a call, and only where the call then parses the answer (`ExecutedOnce`), and
    who is refused was too poor or came with an old template
    (`RefusedForAReason`). The second is why a retry after a 404 pays only once: it
    is reached only if nothing was executed.
  * `PaymentBuysItsTimeHolds`: the invariant only ties the variables to the
    functions; the work is in lemmas about `time` and `payment`. A price is either
    a share of the first tariff that is not longer than the time, or the amount of
    a longer one (`PaymentCases`); what is reached first is that tariff or one
    before it, and so gives the time back although both were rounded up
    (`ShareOfShare`, `ShareOfMore`). The tariffs may be listed in any order: that
    dearer ones come first matters for what a client expects, not for this.
  * `FixRulesFollowHolds` and `FilesAreOneTableHolds`, from `FixInv`: wherever rules
    and files differ, a script has yet to build the rules or to store its payment,
    or its payment was not stored (`FollowInv`); and there is one line of each
    address in all files together, until an address with time left is whitelisted
    (`OneInv`), which is why the first file that is searched does not matter and
    the files are one table.
* `GateProofs`: the vending machine with any number of clients, addresses, rands
  and cron scripts. `GateTypeCorrect`, `ChainsAgreeHolds`,
  `NoAccessWithoutEntryHolds` and `WrittenTableIsFreshHolds` follow from
  `GateInvariance`, the inductive `GateInv`. Its data half (`DataInv`) says what a
  script knows at each place: who is about to pay has a rand, only an old rand
  with value is drawn (`PayFits`), and in the update of `expire-rules` the entries
  still to be looked at are exactly the expired ones (`WorkFits`), which is why
  nothing due is negative and the written table is fresh. Its control half says
  that only the holder of the lock is at a place where others must wait
  (`LockFollowsPc`), that between the two chains the filter is that of the tables
  (`ChainsFollowPc`), and that whenever somebody passes who is not in the tables and
  for whom no fault accounts (`Explained`: listed, stranded, or dropped by a
  `refresh` whose script is still to build the rules or to die), some script is on
  its way to the rules (`RemovalsAreFollowed`). An `expire-rules` that dies is a
  step from anywhere to its end, with whom it has dropped handed over to `stranded`
  (`DieEffect`). The proof
  shows of every action that it keeps the data in order and is a step of one of
  six kinds (`StillStep`, `FreeStep`, `EnterStep`, `InnerStep`, `ReplaceStep`,
  `RedirectStep`), and preserves the control half by kind.
* `PaymentProofs`: what the machine owes, from `GateInv` and four more invariants.
  * `MinutesArePaidHolds`: nothing has been charged for the entries that are still
    to be looked at, and for one that was dropped no more than was due, since what
    is drained is the rest of the rand's value up to that (`MinutesFit`); nobody else writes the acl meanwhile
    (`OneUpdates`, from the lock).
  * `MoneyIsAccountedHolds`: by induction over the steps, each of which adds a
    payment to the ones that stand, takes one away, or moves money with it;
    `StartedFit` says that the payments started are finitely many and each for the
    price of its kind, so that cardinalities count.
  * `PaidTimeKeptHolds` (`OnlyPayments`), from `TimeInv`: at every moment an entry
    has a day for each script that has given and not taken back one, from a time
    that is not later than now. The theorem is what is left of this when nobody is
    on his way: of the scripts that gave, only those that have drawn remain.
  * `PaidAreLetThroughHolds` (`OnlyAdditions`), from `AccessInv`: whoever has an
    entry and is not let through has a script that will still see to the rules;
    a script that has found an entry, and so will not, leaves this to the one that
    made it.
* `LinesProofs`: what `Kept` does to a file (`KeptEmbeds`): there is a strictly
  increasing map from the lines that are kept to the lines there were. Induction
  over the length of a file is out of the prover's reach; the lemma is proved by a
  least counterexample instead (`LeastOf`, `GoodForNone`, `GoodForNext`).
* `LocalAclProofs`: the local acl file by file operation, from `LocalInv`. Its one
  half, `FilesInv`, holds whatever fails: where a process is tells its lock, its
  job and what it has computed (`ControlFits`), and neither the file nor its copy
  has an address that was not there when the writer got the lock, or, after a fault,
  is garbled from one that was (`DataFits`); a last line is only cut after a fault.
  What a cut or glued line may name is in `CutAddrs` and `MergedAddrs`. The
  other half, `CleanInv`, holds until an operation fails: the copy is exactly what
  filter leaves, the new expire follows from the line that went, and before the
  append there is no line of the address. `StrangersStayOutHolds` needs only the
  first half, and holds for all failures, kills and torn lines, with the garbled
  addresses that it names;
  `OneLinePerAddressHolds`, `NoAccessInventedHolds` and `LocalRefinement` need both.
* `LocalRefinement` (same module): until a failure, every step implements a step of
  `LocalStore` or a stutter. The table is that of the old file while a writer is
  between its first and its last change of the file, so `MoveByRename`,
  `MoveCopies` or `AppendLine` is the step, whichever comes last in an operation;
  `AppendIsStoreStep` and its neighbours show that what comes out is what the
  table's topup, removal or refresh is.
* `TextProofs`, for what is decoded, signed, hashed and drawn:
  * `UrlOutputIsMeaningHolds`, from `UrlInv`: whatever follows, the text means what
    has been written and decoded, followed by what it means from the escape on that
    is open (`DecodedSoFar`, `EscapeIsOpen`). At the end of a chunk that escape
    means nothing (`NothingIsOpen`), wherever the chunk ends. That `UrlParse`, a
    function defined by recursion from the end of a text, is defined at all and
    gives a meaning is proved by a least counterexample (`ParseExists`,
    `ParseUnfolds`).
  * `SignedTextIsReadableHolds`, from `SignInv`. Readable is a property of a finished
    message only; `SignedSoFar` is what makes it inductive: while the output is not
    full, what has been written ends at the start of a line, a reader hashes it as
    the signer did, and its lines are those of the document as far as that has been
    read. A turn of the signer adds one line to both: splitting, reading and the
    canonical form of a text that goes on with a line are those of the text before,
    with that line behind them. That a dash which the signer puts in front is taken
    off again, and that a line which is cut by the buffer is cut for both, is what
    the steps need of `CanonLine` and `DashEscLine`. The texts are functions defined
    by recursion on their length, whose existence is again shown by a least
    counterexample.
  * `HashesAreStandardHolds`, from `HashInv`: the blocks that a context has compressed
    are the whole blocks of what it was given, its buffer has the rest, and its
    counter the length modulo its width (`Holds`). An update keeps this whether the
    piece stays within the buffer, fills it, or has blocks of its own; the loop over
    these is followed by a function on their number. `Final` makes one block more or
    two, which are the padding of the standard in both cases, and an HMAC is two such
    hashes whose first block is the padded key.
  * `NoncesAreStandardHolds`, from `NonceInv`: before a candidate is accepted, the memory
    of either library is the state of RFC 6979 after as many refusals, and for `uECC.c`
    a pad and a context besides, about which nothing is claimed (`MemIs`). The pad is
    overwritten by the byte behind V while the hash is in progress, and again by the
    outer pad; since it was hashed before (`HmacInitIs`), what the context has been
    given is the message of an HMAC all the same (`UpdateVAndIs`, `SeedMessage`,
    `FinishIs`). The numbers that `random_uniform` maps to one result are an interval,
    as long for each result (`UniformHolds`). The order that `random_permute` leaves
    tells the draws from the last place to the first, since a place keeps its letter
    (`PermutedKeeps`, `PermutedOneToOne`), and for every order there are such draws:
    the letter a place needs is never behind it (`PermutedOnto`).

Model-checked only:

* liveness (`LockIsReleased`, `PaymentsSettle`, `ExpiredIsHandled`, `CallReturns`),
  which needs fairness that the prover does not deal with, and the expected
  violations;
* `RoundsAreStandard` and `CodesAreReadable`: rounds and pictures are made of the
  bits of words, and the operators for these have no facts a prover could use; the
  same holds of `EncodingsRoundTrip`, where a base is three or five bits across
  bytes, a check sum an exclusive or, and a key the power of a generator;
* `Base58RoundTrips`, `BignumIsModular`, `VliIsModular`, `CurvesFollowTheGroup` and
  `EdFollowsTheStandard`: that a text, a list of limbs, a window or a ladder stands for
  a number is an induction over the limbs or bits in nonlinear arithmetic, in
  recursive operators; and associativity of the group law, on which all multiples
  rest, is a theorem about polynomials that is out of reach of the provers;
* `TreeIsOne`, which rests on the group law.

In all of these TLC evaluates the code on every short input, with every carry,
boundary and refusal that the bounds of section 3 let happen. Two of the checks
say less than their names: the standard writes its rounds as the rolled form of the
code does, with mixing functions that both sides share, so that `RoundsAreStandard` is
about the unrolled form, the ring of words and the tables of RIPEMD-160; and the half
of `NoncesAreStandard` that is about `ecdsa.c` follows the RFC line by line, as the code
does. Its other half, `uECC.c` with the buffers that overlap, is what the run is for.

## 6. Not modelled, and why

* The issuer is external; what is modelled of it is what `protocol.lua` makes of
  its answers. Its certificates are taken as verified; `verify` is an outcome.
* `epoint.roam` is optional and not in the repository; `topup` and `whitelist`
  are modelled with the local acl.
* Addresses, rands and comments are values that are only compared; the patterns
  that parse them, and the ARP table that maps addresses, are left out.
* In `Gate` scripts die of errors (`Die`, `NotOpened`) but are not killed, and
  operations on the local acl do not fail; that is the subject of `AclFile` and
  `LocalAcl`. What `start` and `stop` do to the
  chains, the run flag and the crontab, also those of the fixed ip package, is
  left out.
* libgcrypt, libqrencode, libpng's deflate: external, taken from outside.
* Of ed25519: the arithmetic of field elements (curve25519-donna), packing of
  points, batch verification and the SSE and 64 bit variants. Its limbs are
  products of pairs of words close to the machine's limits, which do not scale
  down to numbers TLC can enumerate.
* `bn_format`, the addresses of Ethereum and NEM, AES and the test programs of
  `address`.
* Login and upload only call what is modelled (`whitelist add`, one transfer of
  a rand's whole value); pages, translations, the bitcoin page, packaging and
  the demo of random numbers keep no shared state.

## 7. What is left

1. `Service`: `start` and `stop` of both init scripts with the run flag, the
   crontab, the chains and a reboot, and the scripts that run meanwhile.
2. Kills of whole scripts in `Gate`: what is given and not drawn, charged and
   not given, bounded by the number of deaths.
3. The field arithmetic of ed25519 on scaled limbs.
4. Proofs: the words of `uECC.c` (`Vli`) with their carries for any width and Base58
   with functions instead of recursive operators, the cache of `bip32.c` for any
   derivation.
