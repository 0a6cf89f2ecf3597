------------------------------- MODULE Wallet -------------------------------
(***************************************************************************)
(* useWallet, the hook through which every page sees the injected wallet   *)
(* (apps/web/lib/wallet.ts), and the wallet itself, which the user works   *)
(* on in a window of its own.  The wallet announces what happens there in  *)
(* events; the hook also asks it, when a page is mounted and when the user *)
(* connects, and every answer comes later than it was asked for.           *)
(***************************************************************************)
EXTENDS TypedAmounts, FiniteSets

CONSTANTS MaxChanges,     \* bound: how often the user changes account or chain
          MaxRuns         \* bound: runs of connect and switchToCoston2 at a time

ASSUME WalletAssumption == MaxChanges \in Nat /\ MaxRuns \in Nat

VARIABLES provider,    \* the wallet: the account it exposes, and its chain
          events,      \* what it has announced and the page has not heard yet
          hook         \* the state of the hook, and the requests it waits for

walletVars == <<provider, events, hook>>

Chains == {"coston2", "other"}
Unknown == "unknown"

-----------------------------------------------------------------------------
(* The wallet (external)                                                   *)

\* It may never have heard of Coston2.
Providers == {p \in [account : Accounts \cup {NoAccount}, chain : Chains, known : BOOLEAN,
                     changes : 0..MaxChanges] : p.chain = "coston2" => p.known}

\* The account that the page may see, or none.
SelectAccount(a) ==
    /\ provider.changes < MaxChanges
    /\ a # provider.account
    /\ provider' = [provider EXCEPT !.account = a, !.changes = @ + 1]
    /\ events' = events \cup {"accountsChanged"}
    /\ UNCHANGED hook

SelectChain(c) ==
    /\ provider.changes < MaxChanges
    /\ c # provider.chain
    /\ provider' = [provider EXCEPT !.chain = c, !.known = @ \/ c = "coston2",
                                    !.changes = @ + 1]
    /\ events' = events \cup {"chainChanged"}
    /\ UNCHANGED hook

\* The wallet is put on Coston2, and announces it if it was elsewhere.
PutOnCoston2 ==
    /\ provider' = [provider EXCEPT !.chain = "coston2", !.known = TRUE]
    /\ events' = IF provider.chain = "coston2" THEN events ELSE events \cup {"chainChanged"}

-----------------------------------------------------------------------------
(* The hook                                                                *)

\* A run of connect or of switchToCoston2, and what it waits for: the accounts,
\* the chain, the switch to Coston2, its addition; or it has been granted the
\* switch, or the addition alone.  Runs of the same kind that wait for the same
\* are one.
Runs == [of : {"connect"}, at : {"accounts", "chain", "switch", "add", "switched", "added"}]
        \cup [of : {"switch"}, at : {"switch", "add", "switched", "added"}]

\* "misled" is a history: the chain was set after an addition that left the wallet
\* where it was.
Mounted == [account |-> NoAccount, chain |-> Unknown, mount |-> "accounts", got |-> NoAccount,
            runs |-> {}, misled |-> FALSE]

Moves(run, to) == (hook.runs \ {run}) \cup {[run EXCEPT !.at = to]}

OnCoston2(h) == h.chain = "coston2"

\* The effect of the mount asks for the accounts, then for the chain, and sets
\* both: the account is the one of the first answer.
AnswerAccounts ==
    /\ hook.mount = "accounts"
    /\ hook' = [hook EXCEPT !.mount = "chain", !.got = provider.account]
    /\ UNCHANGED <<provider, events>>

AnswerChain ==
    /\ hook.mount = "chain"
    /\ hook' = [hook EXCEPT !.mount = "done", !.account = hook.got, !.got = NoAccount,
                            !.chain = provider.chain, !.misled = FALSE]
    /\ UNCHANGED <<provider, events>>

AccountsChanged ==
    /\ "accountsChanged" \in events
    /\ events' = events \ {"accountsChanged"}
    /\ hook' = [hook EXCEPT !.account = provider.account]
    /\ UNCHANGED provider

ChainChangedIgnored ==                  \* mutant: the page is not reloaded
    /\ "chainChanged" \in events
    /\ events' = events \ {"chainChanged"}
    /\ UNCHANGED <<provider, hook>>

\* "A chain switch invalidates every address, balance and nonce on screen": the
\* page is reloaded, and what it waited for never comes.
ChainChanged ==
    /\ "chainChanged" \in events
    /\ events' = {}
    /\ hook' = Mounted
    /\ UNCHANGED provider

\* The button: one to connect, then one to switch, then none.
WalletButton ==
    CASE hook.account = NoAccount -> "connect"
      [] hook.account # NoAccount /\ ~OnCoston2(hook) -> "switch"
      [] OTHER -> "connected"

Starts(run) ==
    /\ Cardinality(hook.runs) < MaxRuns
    /\ hook' = [hook EXCEPT !.runs = @ \cup {run}]

Connecting == \E run \in hook.runs : run.of = "connect"

\* The wallet button is disabled while connecting, the one of the empty list is not.
Connect(disabled) ==
    /\ WalletButton = "connect"
    /\ disabled => ~Connecting
    /\ Starts([of |-> "connect", at |-> "accounts"])
    /\ UNCHANGED <<provider, events>>

\* The user lets the page see an account: the one it sees already, or another.
Connected(run, a) ==
    /\ run.at = "accounts"
    /\ provider.account \in {a, NoAccount}
    /\ provider' = [provider EXCEPT !.account = a]
    /\ events' = IF provider.account = a THEN events ELSE events \cup {"accountsChanged"}
    /\ hook' = [hook EXCEPT !.account = a, !.runs = Moves(run, "chain")]

\* connect goes on to switch the chain unless it is the right one.
ConnectedChain(run) ==
    /\ run.at = "chain"
    /\ hook' = IF provider.chain = "coston2"
               THEN [hook EXCEPT !.chain = "coston2", !.misled = FALSE, !.runs = @ \ {run}]
               ELSE [hook EXCEPT !.runs = Moves(run, "switch")]
    /\ UNCHANGED <<provider, events>>

\* The button is not disabled while a switch is under way.
SwitchToCoston2 ==
    /\ WalletButton = "switch"
    /\ Starts([of |-> "switch", at |-> "switch"])
    /\ UNCHANGED <<provider, events>>

\* wallet_switchEthereumChain: the user approves ...
Switched(run) ==
    /\ run.at = "switch"
    /\ provider.known
    /\ PutOnCoston2
    /\ hook' = [hook EXCEPT !.runs = Moves(run, "switched")]

\* ... or the wallet has never heard of the chain (4902) and is asked to add it.
UnknownChain(run) ==
    /\ run.at = "switch"
    /\ ~provider.known
    /\ hook' = [hook EXCEPT !.runs = Moves(run, "add")]
    /\ UNCHANGED <<provider, events>>

\* wallet_addEthereumChain: the wallet has the chain, and goes there as well if it
\* offers that and the user agrees.
AddedAndSwitched(run) ==
    /\ run.at = "add"
    /\ PutOnCoston2
    /\ hook' = [hook EXCEPT !.runs = Moves(run, "switched")]

Added(run) ==
    /\ run.at = "add"
    /\ provider' = [provider EXCEPT !.known = TRUE]
    /\ hook' = [hook EXCEPT !.runs = Moves(run, "added")]
    /\ UNCHANGED events

\* Either way the hook takes the wallet to be on Coston2.
SwitchAnswered(run) ==
    /\ run.at \in {"switched", "added"}
    /\ hook' = [hook EXCEPT !.chain = "coston2", !.misled = (run.at = "added"),
                            !.runs = @ \ {run}]
    /\ UNCHANGED <<provider, events>>

\* Whatever was asked, the user says no; the hook keeps the sentence.
Refused(run) ==
    /\ run.at \in {"accounts", "switch", "add"}
    /\ hook' = [hook EXCEPT !.runs = @ \ {run}]
    /\ UNCHANGED <<provider, events>>

RunStep ==
    \E run \in hook.runs :
        \/ \E a \in Accounts : Connected(run, a)
        \/ ConnectedChain(run)
        \/ Switched(run) \/ UnknownChain(run) \/ AddedAndSwitched(run) \/ Added(run)
        \/ SwitchAnswered(run) \/ Refused(run)

WalletInit ==
    /\ provider \in {p \in Providers : p.changes = 0}
    /\ events = {}
    /\ hook = Mounted

\* What happens to a page that stays.
WalletStep(disabled) ==
    \/ \E a \in Accounts \cup {NoAccount} : SelectAccount(a)
    \/ \E c \in Chains : SelectChain(c)
    \/ AnswerAccounts \/ AnswerChain \/ AccountsChanged
    \/ Connect(disabled) \/ SwitchToCoston2 \/ RunStep

WalletTypeOK ==
    /\ provider \in Providers
    /\ events \subseteq {"accountsChanged", "chainChanged"}
    /\ hook.account \in Accounts \cup {NoAccount}
    /\ hook.chain \in Chains \cup {Unknown}
    /\ hook.mount \in {"accounts", "chain", "done"}
    /\ hook.got \in Accounts \cup {NoAccount}
    /\ hook.runs \subseteq Runs
    /\ hook.misled \in BOOLEAN
=============================================================================
