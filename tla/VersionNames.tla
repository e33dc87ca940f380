----------------------------- MODULE VersionNames -----------------------------
(***************************************************************************)
(* The objects of one browser version: chromesweep's presets (config.go)   *)
(* and what retarget.go makes of the base manifests under k8s/. A name is  *)
(* a sequence of parts, written with dashes between them.                  *)
(***************************************************************************)
EXTENDS Sequences

\* The presets; manifests and image repository go by the browser's name.
Preset(browser) ==
  [name |-> browser, deployment |-> <<browser>>, container |-> browser,
   job |-> <<browser, "smoke">>]

ChromeBrowser == Preset("chrome")
FirefoxBrowser == Preset("firefox")

\* The manifests under k8s/, reduced to what refers to something.
BaseDeployment(b) ==
  [name |-> <<b.name>>, labels |-> [app |-> <<b.name>>], selector |-> [app |-> <<b.name>>],
   template |-> [app |-> <<b.name>>], images |-> [c \in {b.name} |-> <<b.name>>]]
BaseService(b) ==
  [name |-> <<b.name>>, labels |-> [app |-> <<b.name>>], selector |-> [app |-> <<b.name>>]]
BaseNetworkPolicy(b) ==
  [name |-> <<b.name, "lockdown">>, podSelector |-> [app |-> <<b.name>>]]
BaseJob(b) ==
  [name |-> <<b.name, "smoke">>, template |-> [role |-> <<"chrome", "controller">>],
   hosts |-> <<<<b.name>>, <<"localhost">>>>]   \* whose port 9222 the args name

VersionedName(base, tag) == Append(base, tag)

\* Mutant: the pods keep the label of the manifest.
RetargetDeploymentOnly(dep, name, container, image) ==
  [dep EXCEPT !.name = name, !.labels.app = name, !.selector.app = name,
              !.images = [c \in DOMAIN @ |-> IF c = container THEN image ELSE @[c]]]

RetargetDeployment(dep, name, container, image) ==
  [dep EXCEPT !.name = name, !.labels.app = name, !.selector.app = name,
              !.template.app = name,
              !.images = [c \in DOMAIN @ |-> IF c = container THEN image ELSE @[c]]]

RetargetService(svc, name) ==
  [svc EXCEPT !.name = name, !.labels.app = name, !.selector.app = name]

RetargetNetworkPolicy(np, name) ==
  [np EXCEPT !.name = Append(name, "lockdown"), !.podSelector.app = name]

RetargetJob(job, name, baseHost, versionedHost) ==
  [job EXCEPT !.name = name,
              !.hosts = [i \in DOMAIN @ |-> IF @[i] = baseHost THEN versionedHost ELSE @[i]]]

\* What sweepOne creates for a tag.
Stack(b, tag) ==
  LET name == VersionedName(b.deployment, tag) IN
  [deployment |-> RetargetDeployment(BaseDeployment(b), name, b.container, <<b.name, tag>>),
   service |-> RetargetService(BaseService(b), name),
   netpol |-> RetargetNetworkPolicy(BaseNetworkPolicy(b), name),
   job |-> RetargetJob(BaseJob(b), VersionedName(b.job, tag), b.deployment, name)]

Selects(selector, labels) ==
  \A k \in DOMAIN selector : k \in DOMAIN labels /\ labels[k] = selector[k]
==============================================================================
