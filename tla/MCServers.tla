---------------------------- MODULE MCServers ----------------------------
(* Servers with two numbers, and two profiles made of two hosts, one called by
   a part of its name. *)
EXTENDS Servers

CONSTANTS hq, hqMgmt, site, siteMgmt, acme, own

MCWithin == {<<hq, hqMgmt>>, <<site, siteMgmt>>}
\* A headquarters profile and one of a site, each complete, or without secrets.
MCForms ==
    [name : {hqMgmt}, host : {hq}, domain : {NoWord}, user : {TRUE}, gaiaUser : {TRUE}, pin : {NoCert},
     trusting : {TRUE}, secret : BOOLEAN, gaia : {TRUE}, clear : {FALSE}]
    \cup
    [name : {siteMgmt}, host : {site}, domain : {acme}, user : BOOLEAN, gaiaUser : {FALSE},
     pin : {NoCert, own}, trusting : {FALSE}, secret : {TRUE}, gaia : {FALSE}, clear : BOOLEAN]
==========================================================================
