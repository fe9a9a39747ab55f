# TLA+ models of php_botan's Botan primitives

This directory holds TLA+ models of the parts of the bundled Botan sources
(`src/Botan-1.6.x`) that keep state across calls or run loops whose
bookkeeping is easy to get wrong, and of the programs shipped with them
that drive the library: the test driver and three examples. Each model is checked with TLC. Every
definition that stands for code is listed, with its lines, under `map` in
`PROJECT.json`.

## 1. Inventory

| Part | Source | State it keeps | Operations |
|---|---|---|---|
| CMAC | `Botan-1.6.1/src/cmac.cpp` | `state` (CBC value), `buffer` (one block), `position`, subkeys `B`, `P`, the wrapped cipher `e` and its key schedule | constructor, `add_data`, `final_result`, `key`, `clear`, the pure `poly_double` |
| Turing | `Botan-1.6.1/src/turing.cpp` | key words `K`, S-boxes `S0..S3`, 17-word register `R`, 340-byte keystream `buffer`, `position` | `cipher`, `generate`, `key`, `resync`, `clear`, the pure `PHT`, `mul`, `fixedS`, `gen_sbox` |
| OpenPGP-S2K | `Botan-1.6.5/src/pgp_s2k.cpp` | none between calls. Inside `derive`: `pass`, `generated`, `left`, the hash state and `key` | `derive` |
| SecureVector / MemoryRegion | not in the repository | a zeroed, fixed-size byte buffer | `create`, `clear`, `copy` |
| Blowfish | `Botan-1.6.1/src/blowfish.cpp` | `P` (18 words), `S` (1024 words) | `enc`, `dec`, `key`, `generate_sbox`, `clear` |
| RC6 | `Botan-1.6.1/src/rc6.cpp` | `S` (44 round-key words) | `enc`, `dec`, `key`, `clear` |
| WiderWake, MD4, HAS-160, DSA, CMS, PBES2, BigInt wrapper | headers only | none | none to translate |
| SHA-160 (IA-32) | `Botan-1.6.3/modules/alg_ia32/sha160.cpp` | digest words, a work buffer | `hash` (assembly), `copy_out`, `clear` |
| Test driver | `Botan-1.6.1/checks/check.cpp` | the parsed options, `validate()`'s `errors` sum | `main`, `validate`, `test_types` |
| Examples bzip, dsa_sign, self_sig | `Botan-1.6.1/doc/examples/` | the files they read and write, the loop index and the Pipe's messages | `main` of each |
| PHP shim | `src/php_botan.*` | none of the library's | calls into the library |

**How the parts interact.**
- CMAC wraps a block cipher `e`. It calls `set_key`, `encrypt` and `clear` on it and keeps nothing else of it.
- OpenPGP-S2K drives a hash function through `clear`, `update` and `final`, reusing one object for every digest; the model composes it with SHA-160, the `SHA-1` the specification names.
- All three stateful parts store their data in SecureVectors. They rely on `copy` truncating at the buffer's end and on `clear` zeroing the buffer.
- The test driver and the examples call the library (Pipe, the bzip2 filters, PKCS8, X509, the benchmark and test-vector code) through code that is not in the repository. The models treat each call as a choice among its outcomes, exceptions included.
- Nothing runs concurrently. Every object is used by one caller, one call at a time.

**What makes them hard.** There are no threads and no messages. The hard
part is the sequences of calls and the edge values of lengths:
- a message split across `add_data` calls at every offset;
- a `cipher` call that ends exactly at the end of the keystream buffer;
- re-keying, or `clear` followed by further use;
- `resync` refusing an IV;
- an iteration count below one repetition of salt and passphrase;
- a key cut in the middle of a digest;
- empty inputs;
- in the programs, a failure between two file writes, and an exception caught far from where it was thrown.

## 2. Modules

| Module | Models | Variables ↔ code |
|---|---|---|
| `SecureBuffer` | `create`/`clear` (`Zeroed`) and `copy` (`BufferCopy`), modelled from the specification | none |
| `GFDouble` | `poly_double` (`PolyDouble`) and the reference doubling `Double` in GF(2^8n) | none |
| `MACSpec` | what a MAC object promises: `final_result` = `CMACRef(key, msg)`, the RFC 4493 definition over the whole message | `key`, `msg`, `mac` |
| `CMAC` | the CMAC object: actions `AddData`, `FinalResult`, `Key`, `Clear`; the constructor is `Init` | `state`, `buffer`, `position`, `B`, `P` are the members; `ekey` is the schedule of `e`; `mac` is the output; `msg` is a history variable |
| `StreamSpec` | what a stream cipher promises: consecutive keystream bytes `<<key, iv, n>>`, restarted by `key` and a valid `resync` | `key`, `iv`, `offset`, `out` |
| `Turing` | the Turing object: actions `Cipher`, `Resync` (valid and refused), `Key`, `Clear`; `generate` is the operator `Generate` that every action calls | `K`, `sbox` (S0..S3), `R`, `buffer` and `position` are the members; `out` holds the keystream bytes of the last `cipher` |
| `TuringWords` | the words of `key`, `resync`, `clear` and `generate`: `PHT`, `mul` (`Mul`), `fixedS`, `gen_sbox` (`GenSbox`), the register layout (`ResyncState`, `Frame`, `Fill`) and the 17 rounds of `generate` (`Round`, `GenLoop`) are operators; `Key`, `Resync` (valid and refused), `Clear` are actions | `K`, `S` (S0..S3), `R`, `buffer` are the members; `iv` and `ivS` are history variables, the last accepted IV and the S-boxes it was framed with |
| `Blowfish` | the Blowfish object: actions `Key`, `Clear`; `enc`, `dec`, `generate_sbox` are the operators `Enc`, `Dec`, `GenerateSbox`; the constructor is `Init` | `P`, `S` (S1..S4) are the members; `loaded` is a history variable, the last key |
| `RC6` | the RC6 object: actions `Key`, `Clear`; `enc`, `dec` are `Enc`, `Dec` (one operator per pass of their loop); the key loading and mixing loops are `LoadKey` and `Mix` | `S` is the member; `loaded` is a history variable |
| `OpenPGPS2K` | one `derive` call, with one action per loop step: `Outer`, `Zeros`, `Full`, `PartialRepetition`, `Final` | `pass`, `generated`, `left`, `key` are the locals; `hashed` holds the bytes fed to the hash since its last `final`, `digest` the hash object's digest words |
| `SHA160` | the C++ part of `SHA_160`: `clear` (`ClearDigest`), `copy_out` (`CopyOut`), the call of the assembly compression (`Compress`), `OUTPUT_LENGTH`; operators that `OpenPGPS2K` extends and applies in its `Init` and `Final` | a word is its four bytes, most significant first; a known byte `v` is `<<v>>` |
| `CheckDriver` | `main()` of `check.cpp` as a program counter: `Parse`, `Dispatch`, `CheckSeconds`, `BenchAlgo` (one pass of the `--bench-algo` loop), `BenchType`; `validate()` as `TestTypes`, `ValidateFile` (one test file), `Report` | `opts` are the options, `badTypes` the types `test_types` finds wrong, `errors` the sum, `calls` the benchmark calls made, `exit` the status; `failed` is a history variable |
| `BzipExample` | `main()` of `bzip.cpp`: `Usage`, `Parse`, and per file `Open`, `Skip`, `Feed`, `Output`, then `Finish` | `fs` is the file system, `j` the loop index, `msgs` the Pipe's messages, `cur` the open files; `fed`, `handled`, `last` are history variables |
| `DsaSign` | `main()` of `dsa_sign.cpp`: `Usage`, `OpenMessage`, `OpenSig`, `LoadKey`, `Sign` | the inputs (`argc`, passphrase, key file, message, whether the `.sig` can be written) are chosen in `Init`; `sig` is the `.sig` file's content |
| `SelfSig` | `main()` of `self_sig.cpp`: `Usage`, `CheckFlag`, `SaveKey`, `MakeCert`, `SaveCert` | `priv` and `cert` are `private.pem` and `cert.pem`; `doCA` the local |
| `MCExamples` | `BzipExample`, `DsaSign` and `SelfSig` instanced side by side: `Init` picks which program runs (`prog`), and the others' variables stay as at the start of their `main()` | `b*`, `d*` and `s*` are the three programs' variables |
| `MC*` | the instances TLC checks | |

**Abstraction of data.**
- *CMAC.* Bytes are real bytes (0..255), because padding and doubling act on bits. The block length is 2 bytes, with polynomial 0x87. The block cipher is a keyed permutation `MCEncrypt`, an affine map mod 2^16. Every branch of `cmac.cpp` depends only on `OUTPUT_LENGTH`, so the short block exercises every branch.
- *Turing.* A keystream byte is recorded by where it comes from: which buffer (the register seed, i.e. key, S-boxes and IV, and the count of `generate` calls) and which index. The round arithmetic is left out. `BufSize` stands for `buffer.size()` (340).
- *TuringWords.* Words have 4 bytes of 4 bits (16-bit words, since TLC's integers are 32-bit signed); shift and rotation amounts are scaled from 8 to 4 bits per byte, and every wrap-around is kept. `SBOX`, `Q_BOX` and `OFFSETS` are not in the repository, and `MULT_TAB` is reduced to 16 entries: all are constants of the MC module (`SBOX` a byte permutation). `cipher` and `position` are left to `Turing`. Per-key results (`KeyTable`) are computed once per key. At 4-bit bytes the framing word (`Frame`, `K.size() << 4 + IV.size()` scaled) packs the two counts into overlapping bits, so different sizes can give the same frame; no property depends on the frame's value.
- *Blowfish and RC6.* Words have 4 bytes of 2 bits (8-bit words), so an S-box has 4 entries. Every loop bound, index, byte order, rotation and wrap-around is kept. Blowfish's initial tables (digits of pi, not in the repository) and RC6's magic constants are constants given in the MC modules. Both ciphers are checked against a reference schedule written from the specification's description, not from the loops.
- *OpenPGP-S2K and SHA-160.* Compressing the bytes `s` into the digest words `d` gives the symbolic bytes `<<d, s, word, byte>>`, equal exactly when `d` and `s` are. `final` compresses everything fed since the last `clear` as one unit (the 64-byte buffering and padding of `MDx_HashFunction` are not in the repository), copies the 20 bytes out with `copy_out` and calls `clear`. The reference digest is FIPS 180's H0 || ... || H4 of the compression from the initial value, each word big-endian (`FlattenSeq`).

- *Programs.* A file holds a model value or a record saying what it contains: for bzip, plain data compressed `z` times (`z` counts the `.bz2` layers); for the keys, the key and the passphrase it is encrypted under. A file name in bzip is a base name and a count of `.bz2` suffixes, which is all `+= SUFFIX` and `replace(find(SUFFIX), ...)` look at. `--seconds` is the value `atof()` gives, in hundredths, or the model value `NaN` that `atof("nan")` gives and every comparison is false for. Messages to the user are left out; exit statuses are kept.

**Composition.** `CMAC` and `Turing` are shown to implement their abstract
specifications. `Abs == INSTANCE MACSpec WITH key <- ekey, NoKey <- Cleared`
is checked as the property `ImplementsMACSpec`. The Turing module instances
`StreamSpec` with:
- `key` = the S-boxes' key;
- `iv` = the register's IV;
- `offset` = (g-1)·BufSize + position.

## 3. Runs

| Run | Checks | Shows |
|---|---|---|
| `cmac` (`MCCMAC.cfg`) | `TypeOK`, `LastBlockBuffered`, `ImplementsMACSpec` | Between calls, the buffer holds the message's last 1..n bytes and `state` is the CBC chaining of the rest. Every MAC is CMAC of the bytes fed since the last key/final/clear, however they were split. This holds across re-keying, repeated `final_result` and `clear`. About 42k states. |
| `turing` (`MCTuring.cfg`) | `TypeOK`, `ImplementsStreamSpec` | `cipher` uses consecutive keystream of the current key and IV for every split of the data, including calls ending at the buffer's end and calls spanning several buffers. A refused `resync` changes nothing. |
| `turing_clear` (`MCTuringClear.cfg`) | `ClearedOutputKeyFree` (expected violation) | After `clear()` the object is not zeroed. `Key(k1); Clear; Cipher(4)` passes the first 3 bytes through unencrypted, then outputs keystream from k1's retained register. |
| `s2k` (`MCOpenPGPS2K.cfg`) | `TypeOK`, `DerivedKeyMatchesReference` | For every combination of passphrase, salt, iteration count and key length in the run, `derive` with SHA-1 returns the reference key of the iterated-and-salted S2K. This includes counts smaller than one repetition and keys cut mid-digest. `left` never wraps. With keys of three digests, the one hash object serves three passes, so a `final` whose `clear` left any digest word behind would show in the key. 837 states. |
| `blowfish` (`MCBlowfish.cfg`) | `KeyScheduleMatchesReference`, `RoundTrip` | After any sequence of `key` and `clear`, the tables are the schedule of the last key alone (so `key`'s leading `clear` works), computed as the specification describes: the cyclic key XORed into P, then all 18 + 4·4 words replaced in order by chained encryptions under the tables as they stand. `dec` inverts `enc` under every reachable schedule. 167 states. |
| `rc6` (`MCRC6.cfg`) | `KeyScheduleMatchesReference`, `RoundTrip` | `key` loads the bytes little-endian into ⌈len/4⌉ words and mixes 3·max(c, 44) times, matching a reference written with an explicit word sequence, up to the 32-byte keys that fill `K`; `dec` inverts `enc`. 122 states. |
| `turing_words` (`MCTuringWords.cfg`) | `SboxByteIsPermutation`, `RegisterLayout` | After any sequence of `key`, `resync` and `clear`, `R` and the buffer are `PHT` then `generate` of the register the specification describes: IV words through `fixedS`, the key words, the framing word, the fill, 17 words in all; a refused IV leaves everything alone. Every keyed S-box holds a byte permutation in the byte `gen_sbox` places it. 201 states. |
| `check_driver` (`MCCheckDriver.cfg`) | `TypeOK`, `ValidationVerdict` | `--validate` exits 0 only after `test_types` found every type right and all four test files were read without a failure; no failure of an earlier file is lost from the sum. 13,596 states. |
| `examples` (`MCExamples.cfg`) | `TypeOK`, `OutputIsOwnInput`, `SignatureOfMessageAndKey`, `NewCertMatchesKeyFile` | Each behaviour runs one of `bzip`, `dsa_sign`, `self_sig`. bzip: for every command line of up to three flags and names, over files that exist, are missing, are already compressed or cannot be written, each output file holds its own input compressed or decompressed. dsa_sign: a signature file is only ever the signature of the message under the key file's DSA key, opened with the given passphrase: never an RSA key, never a wrong passphrase. self_sig: a certificate written is for the key stored encrypted under the passphrase, and is a CA certificate exactly for the flag `CA`. 2,988 states (1,652 + 964 + 372). |
| `s2k_empty` (`MCOpenPGPS2KEmpty.cfg`) | `Terminates` (expected violation) | With an empty passphrase and no salt, `while(left >= total_size)` never ends. |
| `dsa_sign_success` (`MCDsaSignSuccess.cfg`) | `SuccessMeansSigned` (expected violation) | A key file `load_key` cannot load (in TLC's trace one that holds no key; a wrong passphrase does the same) makes it throw; the catch (line 78) prints the message and falls through to `return 0`, so the program reports success with an empty `.sig`. Every other error path returns 1. |
| `bzip_handled` (`MCBzipHandled.cfg`) | `EveryFileHandled` (expected violation) | `bzip a.bz2 a`: `a.bz2.bz2` cannot be opened, so file 0 is skipped and starts no Pipe message; file 1 becomes message 0, `set_default_msg(1)` throws, and `main()` returns 1 with `a.bz2` truncated and nothing compressed. The loop's `continue` means to go on with the other files. |

**Further checks, each finding a violation.** These cfgs check one property
each (the violation cfgs of `DsaSign` and `SelfSig` check those modules directly), and TLC finds it violated. They are kept beside the modules, outside
the run list in `PROJECT.json`, where the hazards they belong to cite them.

| cfg | Property | What TLC shows |
|---|---|---|
| `MCBzipClobber.cfg` (`MCBzipExample`) | `SkipLeavesOutput` | `bzip b` with `b` missing truncates an existing `b.bz2`: the ofstream (line 74) is opened before `if(!in)`. |
| `MCDsaSignKeep.cfg` (`DsaSign`) | `FailureKeepsOldSignature` | The `.sig` is truncated before the key is loaded, so a failed run destroys an earlier signature. |
| `MCSelfSigMatch.cfg` (`SelfSig`) | `KeyAndCertMatch` | `private.pem` gets the new key before `create_self_signed_cert` can throw; afterwards `cert.pem` certifies the old key. |
| `MCSelfSigSaved.cfg` (`SelfSig`) | `SuccessMeansSaved` | The ofstreams are never checked: in a directory that takes no new files, nothing is saved and `main()` returns 0. |
| `MCCheckDriverSeconds.cfg` (`MCCheckDriver`) | `BenchmarkSecondsChecked` | `--seconds=nan`: `atof` gives NaN, both comparisons of `(seconds < 0.1 \|\| seconds > 30) && seconds != 0` are false, so the check at line 64 lets it through and the benchmarks run. |
| `MCCheckDriverHelp.cfg` (`MCCheckDriver`) | `HelpTypesRun` | `--help` offers `--bench-type=mode`, which no branch handles: nothing runs and the driver exits 0. |

Each property of a passing run has a mutant in `PROJECT.json`: a plausible
bug in the mapped code, which TLC finds. For example:
- `>=` instead of `>` in `add_data`;
- `key` without its `clear`;
- Blowfish's `dec` using a round-key pair in `enc`'s order;
- RC6's key bytes loaded counting up instead of down;
- the top bit taken from the wrong byte in `poly_double` (caught by `ImplementsMACSpec`, whose reference doubles in the field);
- `validate()` assigning each file's failures instead of adding them;
- bzip writing message 0 instead of message `j`;
- dsa_sign without the `dynamic_cast` check;
- taking a whole buffer off the length in `cipher`;
- consuming the passphrase before the salt;
- `resync` without its IV length check (the framing word then falls outside `R`);
- `gen_sbox` masking with a left instead of a right rotation.

Besides the listed mutants, SHA-160's `copy_out` taking each word least significant first (`CopyOutLittleEndian`) is caught by `DerivedKeyMatchesReference`.

**Bounds.**
- *CMAC.* Two keys. Bytes {0, 129}: one with the top bit set, so doubling and padding both branch. Chunks of 0..3 bytes and messages of up to 5 bytes (2.5 blocks), so every position meets every chunk length, including chunks that end exactly at a block boundary and chunks that span two blocks.
- *Turing.* A 3-byte buffer with calls of 0..4 bytes, so calls end before the buffer's end, at it, and beyond it. IV lengths {0, 4, 16} are valid; {6, 20} are refused. At most 4 `generate` passes per resync.
- *TuringWords.* Keys of every accepted length, 4..32 bytes, plus four more of 4, 8 and 16 bytes with other contents: the largest key with a 16-byte IV fills 12 of the 17 register words, and short keys exercise long fills. IV lengths {0, 4, 8, 16} are valid; {6, 20, 36} are refused, and 36 bytes would put the framing word past `R`.
- *S2K.* Passphrases of 1 and 2 bytes, salts of 0..2 bytes, iterations {0, 2, 3, 5} (below, at and above one repetition), key lengths {0, 1, 20, 50} with SHA-1's 20-byte digest (no digest, one digest cut, one exact digest, three digests with the last one cut, so `final`'s `clear` is followed by two more passes).

- *Blowfish.* All keys of 1..3 bytes over 4 byte values, and 4-byte keys over 3 values: lengths that divide 72 and lengths that wrap mid-word. 16 blocks alternating two byte values and 4 counting blocks.
- *Programs.* check.cpp: option sets combining `--help`, `--validate`, `--benchmark`, `--bench-type` of none, `mode`, `block` or `pk`, `--bench-algo` lists of 0..2 names (one unknown to `bench_algo`), and `--seconds` of none, 0, 0.05, 30, 30.01 and `nan`; two integer types; up to one failure per file. bzip: command lines of up to 3 tokens over two base names with 0 or 1 suffix and the flags `-d`, `-9`; one output name unwritable, so skips and failed decompression both occur. dsa_sign: argc 3..5, two passphrases, DSA, RSA and garbage key files, absent or present message and old signature. self_sig: argc 6 and 7, flags `CA`, `user`, `ca`, an empty directory or one with an earlier pair.
- *RC6.* All keys of 1 and 2 bytes, 4-byte keys, 5-byte keys (two key words, the second partial), and keys of 29 and 32 bytes, which fill all 8 words of `K`. The same kind of 16-byte blocks.

**Fairness.** Only `Terminates` is a liveness property. The program modules stop (`main()` returns), so their cfgs say `CHECK_DEADLOCK FALSE`. `OpenPGPS2K.Spec`
assumes weak fairness of `Next`. `derive` is straight-line synchronous code
with no waiting, so once it is called it keeps taking steps. The objects'
operations (CMAC, Turing) are called by the user, so their specifications
assume no fairness and state only safety.

## 4. Not modelled, and why

- Turing's keystream values against test vectors: the `SBOX` and `Q_BOX` tables are not in the repository, so `generate`'s round order is translated and reviewed, not checked against a reference.
- The CMAC constructor's choice of polynomial by block size and its exception.
- Blowfish's and RC6's full 32-bit words and 256-entry S-boxes: out of TLC's reach; the reduced width keeps the control of every loop.
- The library calls the programs make (Pipe, bzip2, PKCS8, X509, the benchmarks, the test-vector readers): not in the repository, so each is a choice among its outcomes.
- Headers without code (DSA, the BigInt wrapper, CMS, PBES2, WiderWake, MD4, HAS-160) and the PHP shim (see `components` in `PROJECT.json`). SHA-160's compression function `sha160_core` is IA-32 assembly, and the buffering and padding of `MDx_HashFunction` are not in the repository: `SHA160` keeps its C++ part (`clear`, `copy_out`) and takes compression as a symbolic function.

## 5. Plan for further work

1. CMAC: the constructor's polynomial selection as an `Init` over block sizes {8, 16} and others. A block of 8 or 16 bytes puts the byte-level doubling out of TLC's reach, which is why the runs fix a 2-byte block.
2. The example programs' failure orders (`MCBzipClobber.cfg`, `MCDsaSignKeep.cfg`, `MCSelfSigMatch.cfg`, `MCSelfSigSaved.cfg`, `MCCheckDriverHelp.cfg`) are checked beside the run list; each is one code bug TLC demonstrates.
