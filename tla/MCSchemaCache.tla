--------------------------- MODULE MCSchemaCache ---------------------------
(* SchemaCache on one of two connections.  Versions 0 and 1 are a server     *)
(* with two databases: "shop" holds schemas of its own, as PostgreSQL's do,  *)
(* "logs" none, as MySQL's do, and a DDL statement drops shop's second       *)
(* schema.  Versions 2 and 3 are a SQLite file, whose root lists classes     *)
(* instead of databases.  The same requests mean different names on each.    *)
EXTENDS SchemaCache

NamedRequest(c, d, s) == [class |-> c, db |-> d, schema |-> s]

MCRequests ==
  {NamedRequest("objects", "shop", NoName), NamedRequest("objects", "none", "public"),
   NamedRequest("schemas", "main", NoName)}

NoSchemas == [d \in {"shop", "logs", "main"} |-> <<>>]

MCCatalogue ==
  [v \in 0..3 |->
     IF v > 1
     THEN [dbs |-> {"main"}, current |-> "main", flat |-> TRUE, schemas |-> NoSchemas]
     ELSE [dbs |-> {"shop", "logs"}, current |-> "shop", flat |-> FALSE,
           schemas |-> [NoSchemas EXCEPT !["shop"] =
                          IF v = 0 THEN <<"public", "old">> ELSE <<"public">>]]]
=============================================================================
