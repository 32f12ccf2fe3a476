-------------------------- MODULE ProvisioningClaims --------------------------
(* A sentence of the repository about provisioning that the code does not    *)
(* keep to the end.                                                          *)
EXTENDS MCProvisioning

\* docs/architecture.md:144: "host volume mounts are opt-in (...), enforced on the
\* symlink-resolved source". The source is resolved when the request is validated; what the VM is
\* run with is the path as it was written, and a link that is changed in between is followed.
MountsStayPermitted ==
    [][UNCHANGED vm \/ \A v \in vm'.volumes :
        v.source # SeedDir /\ cfg.hostMountRoot # Unset => SourceWithinRoot(fs, cfg.hostMountRoot, v.source)]_vars
=============================================================================
