--------------------------- MODULE BuiltinNatives ---------------------------
(***************************************************************************)
(* The native methods of the Prototype and Params builtin contracts        *)
(* (consensus/builtin/prototype_native.go, params_native.go), run in the   *)
(* native environment of NativeEnv.  One contract account `Self` is bound; *)
(* its storage is a function from slots to values:                         *)
(*   <<"master", a>>       the account's master (state.SetMaster)          *)
(*   <<"user", a>>         a user object exists (AddUser / RemoveUser)     *)
(*   <<"sponsor", a>>      a sponsor flag                                  *)
(*   <<"cur", Self>>       the current sponsor (SelectSponsor)             *)
(*   <<"plan", Self>>      the credit plan                                 *)
(*   <<"param", k>>        a Params value                                  *)
(* A native runs inside one EVM call and never interleaves with another,  *)
(* so one call is one action.  The EVM's revert of a failed call is not   *)
(* part of this code and is not modelled: the storage left by a call is   *)
(* what the native itself left.                                            *)
(***************************************************************************)
EXTENDS NativeEnv

CONSTANTS
    Self,                 \* the bound account
    Addrs,                \* users, sponsors and masters
    ZeroAddress,          \* workshare.Address{}
    Plans, EmptyPlan,     \* credit plans; the unset plan
    Keys, Values,         \* Params keys and values (big.Int)
    ExecutorKey,          \* workshare.KeyExecutorAddress
    AddressSpace,         \* 2^160: BytesToAddress keeps the low 20 bytes
    HasCode,              \* accounts whose code hash is not zero
    SloadGas, SstoreSetGas, SstoreResetGas, GetBalanceGas,
    GasOffers,            \* gas the contract has when the native starts
    UInt32,               \* the modulus of uint32 arithmetic
    MaxStateHistory,      \* workshare.MaxStateHistory
    Numbers,              \* block numbers (uint32)
    Zero                  \* &big.Int{} returned for a balance or credit

VARIABLES
    store,   \* contract storage
    result   \* the last call: [op, out, err, logs]

vars == <<store, result>>

Slots ==
    {<<"master", Self>>, <<"cur", Self>>, <<"plan", Self>>}
    \cup {<<"user", a>> : a \in Addrs} \cup {<<"sponsor", a>> : a \in Addrs}
    \cup {<<"param", k>> : k \in Keys}

\* A value read at block bn: the balance or energy at that block.
AtBlockValue(kind, a, bn) == [kind |-> kind, of |-> a, at |-> bn]

\* Chain().GetBlockSummary(bn) on the chain ending at the parent of block n:
\* a block above it is not found, and the native panics.
BlockSummary(bn, n) == IF bn < n THEN Charge(0) ELSE Fail

Init ==
    /\ store = [s \in Slots |->
                  CASE s[1] \in {"master", "cur"} -> ZeroAddress
                    [] s[1] \in {"user", "sponsor"} -> FALSE
                    [] s[1] = "plan" -> EmptyPlan
                    [] s[1] = "param" -> 0]
    /\ result = [op |-> "none", out |-> NoOutput, err |-> NoError, logs |-> <<>>]
----------------------------------------------------------------------------
(* Fault variants of the definitions below, each a plausible slip.        *)
AddUserNoCheck(u) ==
    Program(<<Charge(SloadGas), Charge(SstoreSetGas), Write(<<"user", u>>, TRUE),
              LogEvent("$User", 1, 1)>>, TRUE)
AtBlockNoFutureCheck(v, n, bn) ==
    IF (n - bn) % UInt32 > MaxStateHistory THEN Program(<<>>, Zero)
    ELSE IF bn = n THEN Program(<<Charge(GetBalanceGas)>>, v)
    ELSE Program(<<Charge(SloadGas), Charge(SloadGas), BlockSummary(bn, n),
                   Charge(SloadGas), Charge(GetBalanceGas)>>, v)
----------------------------------------------------------------------------
(* The Prototype natives, each the program of its method.                 *)

NativeMaster == Program(<<Charge(GetBalanceGas)>>, store[<<"master", Self>>])

NativeSetMaster(m) ==
    Program(<<Charge(SstoreResetGas), Write(<<"master", Self>>, m), LogEvent("$Master", 0, 1)>>,
            NoOutput)

\* native_balanceAtBlock / native_energyAtBlock: zero for a future block or
\* one more than MaxStateHistory back (uint32 subtraction); the current
\* state for the current block; otherwise the state checked out at the
\* block's summary, which the chain (up to the parent) has for bn < n.
AtBlock(v, n, bn) ==
    IF bn > n THEN Program(<<>>, Zero)
    ELSE IF (n - bn) % UInt32 > MaxStateHistory THEN Program(<<>>, Zero)
    ELSE IF bn = n THEN Program(<<Charge(GetBalanceGas)>>, v)
    ELSE Program(<<Charge(SloadGas), Charge(SloadGas), BlockSummary(bn, n),
                   Charge(SloadGas), Charge(GetBalanceGas)>>, v)

NativeBalanceAtBlock(a, n, bn) == AtBlock(AtBlockValue("balance", a, bn), n, bn)

NativeEnergyAtBlock(a, n, bn) == AtBlock(AtBlockValue("energy", a, bn), n, bn)

NativeHasCode(a) == Program(<<Charge(GetBalanceGas)>>, a \in HasCode)

\* The storage of other accounts is not modelled: the value read stands for
\* the slot it was read from.
NativeStorageFor(a, k) == Program(<<Charge(SloadGas)>>, AtBlockValue("storage", a, k))

NativeCreditPlan == Program(<<Charge(SloadGas)>>, store[<<"plan", Self>>])

NativeSetCreditPlan(p) ==
    Program(<<Charge(SstoreSetGas), Write(<<"plan", Self>>, p), LogEvent("$CreditPlan", 0, 2)>>,
            NoOutput)

NativeIsUser(u) == Program(<<Charge(SloadGas)>>, store[<<"user", u>>])

\* The credit of a non-user is zero; a user's follows the plan.
NativeUserCredit(u) ==
    Program(<<Charge(2 * SloadGas)>>,
            IF store[<<"user", u>>] THEN store[<<"plan", Self>>] ELSE Zero)

NativeAddUser(u) ==
    IF store[<<"user", u>>] THEN Program(<<Charge(SloadGas)>>, FALSE)
    ELSE Program(<<Charge(SloadGas), Charge(SstoreSetGas), Write(<<"user", u>>, TRUE),
                   LogEvent("$User", 1, 1)>>, TRUE)

NativeRemoveUser(u) ==
    IF ~store[<<"user", u>>] THEN Program(<<Charge(SloadGas)>>, FALSE)
    ELSE Program(<<Charge(SloadGas), Charge(SstoreResetGas), Write(<<"user", u>>, FALSE),
                   LogEvent("$User", 1, 1)>>, TRUE)

NativeSponsor(sp) ==
    IF store[<<"sponsor", sp>>] THEN Program(<<Charge(SloadGas)>>, FALSE)
    ELSE Program(<<Charge(SloadGas), Charge(SstoreSetGas), Write(<<"sponsor", sp>>, TRUE),
                   LogEvent("$Sponsor", 1, 1)>>, TRUE)

NativeUnsponsor(sp) ==
    IF ~store[<<"sponsor", sp>>] THEN Program(<<Charge(SloadGas)>>, FALSE)
    ELSE Program(<<Charge(SloadGas), Charge(SstoreResetGas), Write(<<"sponsor", sp>>, FALSE),
                   LogEvent("$Sponsor", 1, 1)>>, TRUE)

NativeIsSponsor(sp) == Program(<<Charge(SloadGas)>>, store[<<"sponsor", sp>>])

NativeSelectSponsor(sp) ==
    IF ~store[<<"sponsor", sp>>] THEN Program(<<Charge(SloadGas)>>, FALSE)
    ELSE Program(<<Charge(SloadGas), Charge(SstoreResetGas), Write(<<"cur", Self>>, sp),
                   LogEvent("$Sponsor", 1, 1)>>, TRUE)

NativeCurrentSponsor == Program(<<Charge(SloadGas)>>, store[<<"cur", Self>>])
----------------------------------------------------------------------------
(* The Params natives.                                                    *)

\* native_executor: the executor parameter as an address.
NativeExecutor == Program(<<Charge(SloadGas)>>, store[<<"param", ExecutorKey>>] % AddressSpace)

NativeGet(k) == Program(<<Charge(SloadGas)>>, store[<<"param", k>>])

NativeSet(k, v) == Program(<<Charge(SstoreSetGas), Write(<<"param", k>>, v)>>, NoOutput)
----------------------------------------------------------------------------
\* A call of native op: Environment.Call on the contract's gas.
Invoke(op, prog) ==
    \E g \in GasOffers :
        LET r == Call(prog, g, store)
        IN  /\ store' = r.store
            /\ result' = [op |-> op, out |-> r.out, err |-> r.err, logs |-> r.logs]

Next ==
    \/ Invoke("master", NativeMaster)
    \/ \E m \in Addrs \cup {ZeroAddress} : Invoke("setMaster", NativeSetMaster(m))
    \/ \E a \in Addrs \cup {Self} : Invoke("hasCode", NativeHasCode(a))
    \/ \E n, bn \in Numbers :
          \/ Invoke("balanceAtBlock", NativeBalanceAtBlock(Self, n, bn))
          \/ Invoke("energyAtBlock", NativeEnergyAtBlock(Self, n, bn))
    \/ \E a \in Addrs :
          \/ Invoke("isUser", NativeIsUser(a))
          \/ Invoke("userCredit", NativeUserCredit(a))
          \/ Invoke("addUser", NativeAddUser(a))
          \/ Invoke("removeUser", NativeRemoveUser(a))
          \/ Invoke("sponsor", NativeSponsor(a))
          \/ Invoke("unsponsor", NativeUnsponsor(a))
          \/ Invoke("isSponsor", NativeIsSponsor(a))
          \/ Invoke("selectSponsor", NativeSelectSponsor(a))
    \/ Invoke("creditPlan", NativeCreditPlan)
    \/ \E p \in Plans : Invoke("setCreditPlan", NativeSetCreditPlan(p))
    \/ Invoke("currentSponsor", NativeCurrentSponsor)
    \/ Invoke("executor", NativeExecutor)
    \/ \E k \in Keys :
          \/ Invoke("storageFor", NativeStorageFor(Self, k))
          \/ Invoke("get", NativeGet(k))
          \/ \E v \in Values : Invoke("set", NativeSet(k, v))

Spec == Init /\ [][Next]_vars
----------------------------------------------------------------------------
(* Properties                                                              *)

Results == {"none", "master", "setMaster", "balanceAtBlock", "energyAtBlock", "hasCode",
            "storageFor", "creditPlan", "setCreditPlan", "isUser", "userCredit", "addUser",
            "removeUser", "sponsor", "unsponsor", "isSponsor", "selectSponsor",
            "currentSponsor", "executor", "get", "set"}

\* The storage holds values of its slots' kinds; no native panics.
TypeOK ==
    /\ DOMAIN store = Slots
    /\ \A s \in Slots :
          CASE s[1] \in {"master", "cur"} -> store[s] \in Addrs \cup {ZeroAddress}
            [] s[1] \in {"user", "sponsor"} -> store[s] \in BOOLEAN
            [] s[1] = "plan" -> store[s] \in Plans \cup {EmptyPlan}
            [] s[1] = "param" -> store[s] \in Values \cup {0}
    /\ result.op \in Results
    /\ result.err \in {NoError, OutOfGas}

\* A native that fails (out of gas, including while paying for its event in
\* env.Log) has emitted no event, whatever storage it wrote before.
FailedCallEmitsNoEvent ==
    result.err # NoError => result.logs = <<>>

\* addUser, removeUser, sponsor and unsponsor return true exactly when they
\* changed the flag, and then emit one event; false leaves storage and the
\* log alone.
ReturnsMatchEffects ==
    [][result'.op \in {"addUser", "removeUser", "sponsor", "unsponsor"} /\ result'.err = NoError =>
         /\ (result'.out = TRUE) = (store' # store)
         /\ Len(result'.logs) = IF result'.out = TRUE THEN 1 ELSE 0]_vars

\* balanceAtBlock and energyAtBlock, given the gas, answer for the blocks of
\* the last MaxStateHistory + 1 (the current one included) and return zero
\* for any other block number, near the uint32 wrap included; they never
\* panic on a block the chain does not have.
AtBlockWindow ==
    \A n, bn \in Numbers :
        LET r == Call(NativeBalanceAtBlock(Self, n, bn), 4 * GetBalanceGas, store)
        IN  /\ r.err = NoError
            /\ r.out = IF bn <= n /\ n - bn <= MaxStateHistory
                       THEN AtBlockValue("balance", Self, bn) ELSE Zero
=============================================================================
