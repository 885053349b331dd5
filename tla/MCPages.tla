------------------------------- MODULE MCPages -------------------------------
\* The pages of the wallet and their records: the vault, the popup, the claim of a
\* name, the signing links of the web wallet; the requests of a site while the worker
\* restarts; and the gateway all of them ask.  None reads what another keeps, so each
\* behaviour is one of either.
EXTENDS SigningRequests, WebSigning, Names, WalletVault, PopupWallet, RpcGateway

VARIABLE part

\* One site, whose requests are named for their kind.
MCSiteOf == [r \in Requests |-> CHOOSE o \in Sites : TRUE]
MCKindOf == [r \in Requests |-> r]

pages == <<part, vaultVars, popupVars, nameVars, webVars, vars, gatewayVars>>

\* Where the part is another one, its first state does not matter.
First == CHOOSE a \in Accounts : TRUE

PagesInit ==
  /\ part \in {"vault", "popup", "name", "links", "worker", "gateway"}
  /\ VaultInit
  /\ PopupInit
  /\ NamesInit
  /\ LinksInit
  /\ Init
  /\ GatewayInit
  /\ part # "vault" => store = "web" /\ open = VaultPages
  /\ part # "popup" => accounts = {}
  /\ part # "name" => me = First
  /\ part # "links" => active = First
  /\ part # "worker" => activeAccount = First

PagesNext ==
  \/ /\ part = "vault" /\ VaultNext
     /\ UNCHANGED <<part, popupVars, nameVars, webVars, vars, gatewayVars>>
  \/ /\ part = "popup" /\ PopupNext
     /\ UNCHANGED <<part, vaultVars, nameVars, webVars, vars, gatewayVars>>
  \/ /\ part = "name" /\ NamesNext
     /\ UNCHANGED <<part, vaultVars, popupVars, webVars, vars, gatewayVars>>
  \/ /\ part = "links" /\ LinksNext
     /\ UNCHANGED <<part, vaultVars, popupVars, nameVars, vars, gatewayVars>>
  \/ /\ part = "worker" /\ Next
     /\ UNCHANGED <<part, vaultVars, popupVars, nameVars, webVars, gatewayVars>>
  \/ /\ part = "gateway" /\ GatewayNext
     /\ UNCHANGED <<part, vaultVars, popupVars, nameVars, webVars, vars>>

PagesSpec == PagesInit /\ [][PagesNext]_pages
=============================================================================
