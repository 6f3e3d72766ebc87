----------------------------- MODULE MCWorkload -----------------------------
(* Two versions of an app next to each other, and Tasks of that app. *)
EXTENDS DeepCopy

MCConfig == [serviceAccount |-> "eirini", registrySecret |-> "default-image-pull-secret",
             allowAutomountToken |-> FALSE]

Hub == [host |-> "docker.io", path |-> <<"library", "dorini">>]
Own == [host |-> "registry.example", path |-> <<"team", "dorini">>]

Environment == <<Var("POD_NAME", "mine"), Var("CF_INSTANCE_INDEX", "7")>>

Lrp1 == [guid |-> <<"g", "1">>, version |-> <<"v", "1">>, appName |-> <<"A", "_", "b">>, spaceName |-> <<"s">>,
         processType |-> "web", appGuid |-> <<"g">>, place |-> "org/space",
         image |-> Hub, instances |-> 1, command |-> <<"run">>,
         env |-> [CF_INSTANCE_IP |-> "mine"], environment |-> <<>>,
         health |-> [type |-> "http", port |-> 8080, endpoint |-> "/", timeoutMs |-> 2500],
         ports |-> <<8080>>, memoryMB |-> 256, diskMB |-> 512, cpuWeight |-> 10,
         sidecars |-> <<[name |-> "car", command |-> <<"serve">>, memoryMB |-> 32, env |-> [BAR |-> "bar"]]>>,
         volumeMounts |-> <<[claimName |-> "data", mountPath |-> "/data"]>>,
         privateRegistry |-> FALSE, userDefinedAnnotations |-> [appName |-> <<"b">>]]

Lrp2 == [Lrp1 EXCEPT !.version = <<"v", "2">>, !.appName = <<" ", "b">>, !.privateRegistry = TRUE,
                     !.command = <<"go">>, !.env.CF_INSTANCE_IP = "own", !.environment = Environment,
                     !.health.type = "port", !.ports = <<9090>>,
                     !.sidecars = <<[name |-> "side", command |-> <<"help">>, memoryMB |-> 64,
                                     env |-> [BAR |-> "foo"]]>>,
                     !.volumeMounts[1].claimName = "disk", !.userDefinedAnnotations.appName = <<"a">>]

MCSpecs ==
    [lrp1 |-> {Lrp1, [Lrp1 EXCEPT !.instances = 2], [Lrp1 EXCEPT !.instances = 9],
               [Lrp1 EXCEPT !.image = Own], [Lrp1 EXCEPT !.image = NoImage],
               [Lrp1 EXCEPT !.environment = Environment],
               [Lrp1 EXCEPT !.appName = <<"b", "b", "b", ".", "b">>],
               [Lrp1 EXCEPT !.appName = <<" ", "b">>]},
     lrp2 |-> {Lrp2, [Lrp2 EXCEPT !.instances = 2, !.image = Own]}]

Task1 == [guid |-> <<"g", "1">>, name |-> <<"n">>, image |-> Hub, imagePullSecrets |-> <<"pull">>,
          env |-> [FOO |-> "bar", POD_NAME |-> "mine"], environment |-> <<Var("CF_INSTANCE_IP", "mine")>>, command |-> <<"migrate">>,
          appName |-> <<"a">>, appGuid |-> <<"g">>, spaceName |-> <<"s">>, place |-> "org/space",
          memoryMB |-> 64, diskMB |-> 64, cpuMillis |-> 10]

MCTasks == {Task1, [Task1 EXCEPT !.name = <<"n", "-", "n">>, !.imagePullSecrets = <<"own">>,
                                 !.env.FOO = "foo", !.command = <<"seed">>]}
=============================================================================
