---------------------------- MODULE Configuration -----------------------------
(***************************************************************************)
(* The file a gateway is started with: configuration.Parse and the         *)
(* validate tags of model.Cfg.                                             *)
(***************************************************************************)
CONSTANTS
    Organizations,  \* values of the claim organization_id
    Services,       \* values of the field type of a requested access
    None            \* no value

ASSUME NoneAssumption == None \notin Services

\* The fields somebody reads, whether every other field whose tag says required
\* has a value, and whether an exporter of traces can be made for it.
Cfg == [complete : BOOLEAN,
        exporter : BOOLEAN,
        mongo_disable : BOOLEAN,
        jwt_enabled : BOOLEAN,
        access : [Organizations -> Services \cup {None}]]

\* What EDUSEAL_CONFIG_YAML names.
File == [kind : {"unset", "unreadable", "folder", "not_yaml", "yaml"}, cfg : Cfg]

\* Check fails without a tracer.  The validator takes the zero value of a
\* required field for a missing one, and the zero value of Mongo.Disable is
\* false.
Check(cfg) == cfg.exporter /\ cfg.complete /\ cfg.mongo_disable

\* The configurations Parse returns for a file: one or none, and then main
\* panics.
Parse(file) == {cfg \in {file.cfg} : file.kind = "yaml" /\ Check(cfg)}

=============================================================================
